---- MODULE Spec2Model ----
(***************************************************************************)
(* A model of the Python AI service of the chat-bot platform:              *)
(*   services/python-ai/app/services/rag_service.py                        *)
(*   services/python-ai/app/services/model_service_gguf.py                 *)
(*   services/python-ai/app/api/routes.py                                  *)
(*                                                                         *)
(* A Python str is modelled as a sequence of one-character strings, so     *)
(* that regular-expression substitutions, strip(), split() and slicing     *)
(* are computed character by character.                                    *)
(***************************************************************************)
EXTENDS Integers, Sequences, FiniteSets, TLC

VARIABLES
    pc,          \* which entry point the current call runs, and whether it returned
    san_in,      \* clean_pdf_artifacts: the raw text given to the first call
    san_arg,     \* clean_pdf_artifacts: the argument of the latest call
    san_out,     \* clean_pdf_artifacts: the value the latest call returned
    san_calls,   \* clean_pdf_artifacts: calls made so far, each on the previous output
    heap,            \* the caller's Document dicts; a list of documents holds references (indices) into it
    vector_results,  \* advanced_search / rerank_documents: the document list passed by the caller
    top_k,           \* advanced_search / rerank_documents: parameter top_k
    use_reranker,    \* settings.use_reranker
    reranker_model,  \* RAGService._reranker_model (None, or the instance built)
    candidates_list, \* advanced_search: the candidates left by the deduplication by id
    rr_docs,         \* rerank_documents: parameter documents of the latest call
    rr_top_k,        \* rerank_documents: parameter top_k of the latest call
    rr_out,          \* what the CrossEncoder did during the latest call of rerank_documents
    rr_reranker,     \* rerank_documents: what load_reranker_model returned
    rr_result,       \* rerank_documents: the list returned
    result,          \* advanced_search: the list returned
    embedding_model, \* RAGService._embedding_model (None, or the instance built)
    gguf_model,      \* ModelServiceGGUF._model (None, or the instance built)
    rag_lock,        \* RAGService._lock: Free, or the thread that holds it
    gguf_lock,       \* ModelServiceGGUF._lock: Free, or the thread that holds it
    llama_available, \* LLAMA_CPP_AVAILABLE
    th,              \* per thread: where its load call stands and what its latest call returned
    calls,           \* the number of load calls made so far
    built,           \* per handle: the instances its constructor returned, in order
    ctor_runs,       \* per handle: the number of calls that ran the constructor
    query,           \* build_context: parameter query
    ctx_documents,   \* build_context: parameter documents
    max_chars,       \* build_context: parameter max_chars
    max_docs,        \* build_context: parameter max_docs
    min_docs,        \* build_context: parameter min_docs
    filtered_docs,   \* build_context: the documents that enter the packing pass (positions in documents)
    context_parts,   \* build_context: the entries packed
    total_chars,     \* build_context: the characters counted against max_chars
    context,         \* build_context: the string returned
    after_filter,    \* build_context: filtered_docs after the filter pass (positions in documents)
    after_safety,    \* build_context: filtered_docs after the safety net
    after_fallback,  \* build_context: filtered_docs after the fallback, as it enters the deduplication
    packed,          \* build_context: the documents the entries were made of (positions in documents)
    pack_stop,       \* build_context: where in filtered_docs the packing loop was left, and why
    raw_text,        \* split_text_semantic: parameter text
    chunk_size,      \* split_text_semantic: parameter chunk_size
    overlap,         \* split_text_semantic: parameter overlap
    punkt_ok,        \* whether nltk.sent_tokenize works (FALSE: it raises)
    chunks,          \* split_text_semantic: the list returned
    closes,          \* split_text_semantic: per chunk closed by the loop, current_chunk and last_header at the close
    ask_at,          \* /ask: where the generator generate() stands
    raw_tokens,      \* /ask: the texts the llama stream gives when it is not cut short
    next_raw,        \* /ask: the index in raw_tokens of the next text of the llama stream
    started,         \* generate_response_stream: the flag started
    yielded,         \* generate_response_stream: the tokens it yielded, in order
    events           \* /ask: the events generate() yielded, in order

sanVars == <<san_in, san_arg, san_out, san_calls>>
searchVars == <<heap, vector_results, top_k, use_reranker, reranker_model,
                candidates_list, rr_docs, rr_top_k, rr_out, rr_reranker,
                rr_result, result>>
loadVars == <<embedding_model, gguf_model, rag_lock, gguf_lock, llama_available,
              th, calls, built, ctor_runs>>
ctxVars == <<query, ctx_documents, max_chars, max_docs, min_docs, filtered_docs,
             context_parts, total_chars, context, after_filter, after_safety,
             after_fallback, packed, pack_stop>>
chunkVars == <<raw_text, chunk_size, overlap, punkt_ok, chunks, closes>>
askVars == <<ask_at, raw_tokens, next_raw, started, yielded, events>>
vars == <<pc, sanVars, searchVars, loadVars, ctxVars, chunkVars, askVars>>

(***************************************************************************)
(* Characters.                                                             *)
(***************************************************************************)
LowerSeq == <<"a", "b", "c", "d", "e", "f", "g", "h", "i", "j", "k", "l", "m", "n", "o", "p", "q", "r", "s", "t", "u", "v", "w", "x", "y", "z">>
UpperSeq == <<"A", "B", "C", "D", "E", "F", "G", "H", "I", "J", "K", "L", "M", "N", "O", "P", "Q", "R", "S", "T", "U", "V", "W", "X", "Y", "Z">>
LowerChars == {LowerSeq[i] : i \in 1..Len(LowerSeq)}
UpperChars == {UpperSeq[i] : i \in 1..Len(UpperSeq)}
DigitChars == {"0", "1", "2", "3", "4", "5", "6", "7", "8", "9"}

\* \w of Python's re (the Latin part of it)
WordChars == LowerChars \cup UpperChars \cup DigitChars \cup {"_"}

\* \s of Python's re, and what str.strip() strips
SpaceChars == {" ", "\t", "\n", "\r", "\f"}

\* the punctuation the second substitution of clean_pdf_artifacts keeps
KeptPunct == {"-", ".", ",", "!", "?", ":", ";", "(", ")", "&", "'", "\""}

\* [\x00-\x08\x0B\x0C\x0E-\x1F]: the C0 controls other than \t \n \r;
\* the form feed \x0C stands for the class
CtrlRemoved == {"\f"}

\* every C0 control character (U+0000..U+001F) the model's alphabet holds
C0Controls == {"\t", "\n", "\r", "\f"}

(***************************************************************************)
(* Sequence helpers.                                                       *)
(***************************************************************************)
\* s[a..b] as Python slices it (1-based, inclusive; empty when a > b)
Slice(s, a, b) == IF a > b THEN <<>> ELSE SubSeq(s, a, b)

\* the elements of s at the indices in I, in order
RECURSIVE AtIdx(_, _, _)
AtIdx(s, I, i) ==
    IF i > Len(s) THEN <<>>
    ELSE (IF i \in I THEN <<s[i]>> ELSE <<>>) \o AtIdx(s, I, i + 1)

\* every list of at most n elements of S
RECURSIVE SeqsUpTo(_, _)
SeqsUpTo(S, n) ==
    IF n = 0 THEN {<<>>}
    ELSE LET shorter == SeqsUpTo(S, n - 1)
         IN shorter \cup {Append(s, c) : s \in {t \in shorter : Len(t) = n - 1}, c \in S}

Min(a, b) == IF a <= b THEN a ELSE b
Max(a, b) == IF a >= b THEN a ELSE b

\* x is an element of the list s
InSeq(x, s) == \E i \in 1..Len(s) : s[i] = x

\* s[:k] of a Python list or str; a negative k counts from the end
Prefix(s, k) ==
    IF k >= 0 THEN Slice(s, 1, Min(k, Len(s)))
    ELSE Slice(s, 1, Max(0, Len(s) + k))

\* s repeated n times
Rep(s, n) == [i \in 1..(n * Len(s)) |-> s[((i - 1) % Len(s)) + 1]]

\* str.strip(): drop the leading and the trailing whitespace
Strip(s) ==
    LET NonSp == {i \in 1..Len(s) : s[i] \notin SpaceChars}
        First == CHOOSE x \in NonSp : \A y \in 1..(x - 1) : s[y] \in SpaceChars
        Last == CHOOSE x \in NonSp : \A y \in (x + 1)..Len(s) : s[y] \in SpaceChars
    IN IF NonSp = {} THEN <<>> ELSE SubSeq(s, First, Last)

\* `t in s` of two strings: t occurs in s as a contiguous run
Contains(s, t) ==
    \E i \in 1..(Len(s) - Len(t) + 1) : SubSeq(s, i, i + Len(t) - 1) = t

(***************************************************************************)
(* clean_pdf_artifacts, one definition per statement.                      *)
(***************************************************************************)
\* re.sub(r'[\x00-\x08\x0B\x0C\x0E-\x1F]', '', text)
RemoveControls(s) == SelectSeq(s, LAMBDA c : c \notin CtrlRemoved)

\* re.sub(r'[^\w\s\-\.,!?:;()&\'"\n]', '', text, flags=re.UNICODE)
RemoveDisallowed(s) ==
    SelectSeq(s, LAMBDA c : c \in WordChars \cup SpaceChars \cup KeptPunct)

\* re.sub(r' +', ' ', text): of every run of spaces the first is kept
CollapseSpaces(s) ==
    AtIdx(s, {i \in 1..Len(s) : ~(s[i] = " " /\ i > 1 /\ s[i - 1] = " ")}, 1)

\* a slip in the replacement: three newlines of a run are kept
CollapseNewlines_KeepThree(s) ==
    AtIdx(s, {i \in 1..Len(s) :
                 ~(s[i] = "\n" /\ i > 3 /\ s[i - 1] = "\n" /\ s[i - 2] = "\n"
                     /\ s[i - 3] = "\n")}, 1)

\* re.sub(r'\n{3,}', '\n\n', text): of every run of newlines two are kept
CollapseNewlines(s) ==
    AtIdx(s, {i \in 1..Len(s) :
                 ~(s[i] = "\n" /\ i > 2 /\ s[i - 1] = "\n" /\ s[i - 2] = "\n")}, 1)

\* the statements in another order: spaces collapsed before the symbols
\* between them are removed
clean_pdf_artifacts_SpacesFirst(text) ==
    Strip(CollapseNewlines(RemoveDisallowed(CollapseSpaces(RemoveControls(text)))))

clean_pdf_artifacts(text) ==
    Strip(CollapseNewlines(CollapseSpaces(RemoveDisallowed(RemoveControls(text)))))

(***************************************************************************)
(* Documents.  A Document is a Python dict: a function from the keys it    *)
(* holds to their values.  The value of 'id' may be a str, an int or None  *)
(* (the payload is JSON); 'text' is a str; 'rerank_score' is a float,      *)
(* counted here in whole units.                                            *)
(***************************************************************************)
None == 0

StrVal(s) == [t |-> "str", s |-> s]
IntVal(n) == [t |-> "int", n |-> n]
NoneVal == [t |-> "none"]

\* dict.get(k, default)
Get(d, k, default) == IF k \in DOMAIN d THEN d[k] ELSE default

\* str(n) of a natural number
RECURSIVE NatToStr(_)
NatToStr(n) ==
    LET digits == <<"0", "1", "2", "3", "4", "5", "6", "7", "8", "9">>
    IN IF n < 10 THEN <<digits[n + 1]>>
       ELSE NatToStr(n \div 10) \o <<digits[(n % 10) + 1]>>

\* str(v)
PyStr(v) ==
    CASE v.t = "str" -> v.s
      [] v.t = "int" -> IF v.n < 0 THEN <<"-">> \o NatToStr(0 - v.n) ELSE NatToStr(v.n)
      [] v.t = "none" -> <<"N", "o", "n", "e">>

\* str(doc.get('id', ''))
DocId(doc) == PyStr(Get(doc, "id", StrVal(<<>>)))

(***************************************************************************)
(* advanced_search: deduplication by id (a dict keyed by the stringified   *)
(* id; dict.values() lists the values in insertion order).                 *)
(***************************************************************************)
RECURSIVE DedupeFrom(_, _, _, _)
DedupeFrom(h, refs, i, all_candidates) ==
    IF i > Len(refs) THEN all_candidates
    ELSE LET doc_id == DocId(h[refs[i]])
         IN IF doc_id # <<>> /\ ~InSeq(doc_id, all_candidates.keys)
            THEN DedupeFrom(h, refs, i + 1,
                     [keys |-> Append(all_candidates.keys, doc_id),
                      vals |-> Append(all_candidates.vals, refs[i])])
            ELSE DedupeFrom(h, refs, i + 1, all_candidates)

\* the membership test left out: every document with an id is kept
Dedupe_NoSeenCheck(h, refs) ==
    SelectSeq(refs, LAMBDA r : DocId(h[r]) # <<>>)

Dedupe(h, refs) == DedupeFrom(h, refs, 1, [keys |-> <<>>, vals |-> <<>>]).vals

(***************************************************************************)
(* rerank_documents.                                                       *)
(***************************************************************************)
\* What the CrossEncoder does during one call:
\*   ctor_ok   whether CrossEncoder(...) succeeds when the model must be built
\*   predict   "raise" when predict() raises, else "scores"
\*   scores    the array predict() returns
\*   fail_at   0, or the index i at which float(scores[i]) raises
NoOutcome == [ctor_ok |-> TRUE, predict |-> "none", scores |-> <<>>, fail_at |-> 0]

\* load_reranker_model, called by one thread: the state of the handle after
\* the call, and the value returned
load_reranker_model(model, enabled, ctor_ok) ==
    IF model = None /\ enabled
    THEN IF ctor_ok THEN [model |-> 1, ret |-> 1]
                    ELSE [model |-> None, ret |-> None]
    ELSE [model |-> model, ret |-> model]

\* the fallback returns every document
Fallback_All(documents, k) == documents

\* documents[:top_k], returned when there is no reranker or the scoring failed
Fallback(documents, k) == Prefix(documents, k)

\* a negative default
MissingScore_MinusOne == 0 - 1

\* the rerank_score of a document predict() returned no score for
MissingScore == 0

\* a dict that holds the score and nothing else
WithScore_Alone(doc, v) == [k \in {"rerank_score"} |-> v]

\* doc['rerank_score'] = v: the field is added to the dict, or overwritten
WithScore(doc, v) ==
    [k \in DOMAIN doc \cup {"rerank_score"} |->
        IF k = "rerank_score" THEN v ELSE doc[k]]

\* the loop over enumerate(documents) up to index upto: doc['rerank_score'] = ...
RECURSIVE AssignScores(_, _, _, _, _)
AssignScores(h, documents, scores, i, upto) ==
    IF i > upto THEN h
    ELSE LET r == documents[i]
             v == IF i <= Len(scores) THEN scores[i] ELSE MissingScore
         IN AssignScores([h EXCEPT ![r] = WithScore(h[r], v)], documents, scores,
                         i + 1, upto)

\* equal keys in reverse order
InsertDesc_TiesFirst(sorted, r, h) ==
    LET before == {j \in 1..Len(sorted) :
                      Get(h[sorted[j]], "rerank_score", 0) > Get(h[r], "rerank_score", 0)}
        n == Cardinality(before)
    IN Slice(sorted, 1, n) \o <<r>> \o Slice(sorted, n + 1, Len(sorted))

\* r put into a list sorted by descending key, after the elements whose key is
\* greater or equal: equal keys keep the order of insertion
InsertDesc(sorted, r, h) ==
    LET before == {j \in 1..Len(sorted) :
                      Get(h[sorted[j]], "rerank_score", 0) >= Get(h[r], "rerank_score", 0)}
        n == Cardinality(before)
    IN Slice(sorted, 1, n) \o <<r>> \o Slice(sorted, n + 1, Len(sorted))

\* sorted(documents, key=lambda d: d.get('rerank_score', 0), reverse=True):
\* Python's sort is stable, with reverse=True too
RECURSIVE SortDescFrom(_, _, _, _)
SortDescFrom(documents, h, i, sorted) ==
    IF i > Len(documents) THEN sorted
    ELSE SortDescFrom(documents, h, i + 1, InsertDesc(sorted, documents[i], h))

SortDesc(documents, h) == SortDescFrom(documents, h, 1, <<>>)

\* the (query, text) pairs: one per document, the text cut to 2000 characters,
\* str(doc) when the text is blank
PairTextLimit == 2000
Pairs(h, documents) ==
    [i \in 1..Len(documents) |->
        LET doc_text == Prefix(Get(h[documents[i]], "text", <<>>), PairTextLimit)
        IN IF Strip(doc_text) # <<>> THEN [text |-> doc_text]
                                     ELSE [repr |-> documents[i]]]

\* rerank_documents(query, documents, top_k): the heap and the handle after
\* the call, what load_reranker_model returned, and the list returned
rerank_documents(h, model, enabled, documents, k, out) ==
    IF documents = <<>>
    THEN [heap |-> h, model |-> model, reranker |-> None, ret |-> <<>>]
    ELSE LET loaded == load_reranker_model(model, enabled, out.ctor_ok)
         IN IF loaded.ret = None
            THEN [heap |-> h, model |-> loaded.model, reranker |-> None,
                  ret |-> Fallback(documents, k)]
            ELSE IF Len(Pairs(h, documents)) = 0
            THEN [heap |-> h, model |-> loaded.model, reranker |-> loaded.ret,
                  ret |-> Fallback(documents, k)]
            ELSE IF out.predict = "raise"
            THEN [heap |-> h, model |-> loaded.model, reranker |-> loaded.ret,
                  ret |-> Fallback(documents, k)]
            ELSE IF out.fail_at > 0
            THEN \* float(scores[fail_at]) raises: the documents before it are scored
                 [heap |-> AssignScores(h, documents, out.scores, 1, out.fail_at - 1),
                  model |-> loaded.model, reranker |-> loaded.ret,
                  ret |-> Fallback(documents, k)]
            ELSE LET h2 == AssignScores(h, documents, out.scores, 1, Len(documents))
                 IN [heap |-> h2, model |-> loaded.model, reranker |-> loaded.ret,
                     ret |-> Prefix(SortDesc(documents, h2), k)]

(***************************************************************************)
(* RAGService.build_context.  The documents are the caller's list; a list  *)
(* of documents built by the function holds positions of that list.        *)
(***************************************************************************)
\* str.lower()
LowerOf(c) ==
    IF c \in UpperChars THEN LowerSeq[CHOOSE i \in 1..Len(UpperSeq) : UpperSeq[i] = c]
    ELSE c
Lower(s) == [i \in 1..Len(s) |-> LowerOf(s[i])]

\* the characters of the class [A-Za-z...'] of extract_keywords
KeywordChars == LowerChars \cup UpperChars \cup {"'"}

\* re.findall(r"[A-Za-z...']+", text): the maximal runs of class characters
RECURSIVE FindAll(_, _, _, _)
FindAll(text, i, run, found) ==
    LET closed == IF run = <<>> THEN found ELSE Append(found, run)
    IN IF i > Len(text) THEN closed
       ELSE IF text[i] \in KeywordChars
            THEN FindAll(text, i + 1, Append(run, text[i]), found)
            ELSE FindAll(text, i + 1, <<>>, closed)

KeywordMinLen == 4

extract_keywords(text) ==
    LET long == SelectSeq(FindAll(text, 1, <<>>, <<>>),
                          LAMBDA w : Len(w) >= KeywordMinLen)
    IN [j \in 1..Len(long) |-> Lower(long[j])]

\* text.split('\n', 1)[0]
FirstLine(text) ==
    LET nl == {i \in 1..Len(text) : text[i] = "\n"}
    IN IF nl = {} THEN text
       ELSE Slice(text, 1, (CHOOSE i \in nl : \A j \in nl : i <= j) - 1)

\* main_header: the first line of the first document when it is short, else
\* None (written as the empty string: the code only tests its truth)
HeaderLimit == 60
MainHeader(docs) ==
    LET first_line == Strip(FirstLine(Get(docs[1], "text", <<>>)))
    IN IF first_line # <<>> /\ Len(first_line) <= HeaderLimit THEN first_line
       ELSE <<>>

\* float(doc.get('rerank_score', 0) or 0)
Score(doc) == Get(doc, "rerank_score", 0)

RECURSIVE MaxRerankFrom(_, _, _)
MaxRerankFrom(docs, i, max_rerank) ==
    IF i > Len(docs) THEN max_rerank
    ELSE MaxRerankFrom(docs, i + 1,
                       IF Score(docs[i]) > max_rerank THEN Score(docs[i])
                       ELSE max_rerank)
MaxRerank(docs) == MaxRerankFrom(docs, 1, 0)

\* score < max_rerank * 0.55, in hundredths
\* a lower threshold
NoisePercent_Low == 55 - 10

NoisePercent == 55
BelowNoise(score, max_rerank) == score * 100 < max_rerank * NoisePercent

\* a filter pass that forces no document in
KeepFirst_Never(kept) == FALSE

\* if not filtered_docs: keep = True
KeepFirst(kept) == kept = <<>>

\* the filter pass: keyword or header match, the first kept document exempt
RECURSIVE FilterFrom(_, _, _, _, _, _)
FilterFrom(docs, query_keywords, main_header, max_rerank, i, kept) ==
    IF i > Len(docs) THEN kept
    ELSE LET lower_text == Lower(Get(docs[i], "text", <<>>))
             score == Score(docs[i])
             keep1 == /\ query_keywords # <<>>
                      /\ \E k \in 1..Len(query_keywords) :
                            Contains(lower_text, query_keywords[k])
             keep2 == keep1 \/ (main_header # <<>>
                                /\ Contains(lower_text, Lower(main_header)))
             keep3 == keep2 \/ KeepFirst(kept)
             keep == keep3 /\ ~(max_rerank > 0 /\ kept # <<>>
                                /\ BelowNoise(score, max_rerank))
         IN FilterFrom(docs, query_keywords, main_header, max_rerank, i + 1,
                       IF keep THEN Append(kept, i) ELSE kept)
FilterPass(q, docs) ==
    FilterFrom(docs, extract_keywords(q), MainHeader(docs), MaxRerank(docs), 1, <<>>)

\* `doc in filtered_docs`: a document equal to docs[i] is in the list
DocIn(docs, i, kept) == \E j \in 1..Len(kept) : docs[kept[j]] = docs[i]

\* the safety net: documents not yet kept, in input order, up to min_docs
RECURSIVE SafetyFrom(_, _, _, _)
SafetyFrom(docs, i, kept, min) ==
    IF i > Len(docs) THEN kept
    ELSE IF DocIn(docs, i, kept) THEN SafetyFrom(docs, i + 1, kept, min)
    ELSE IF Len(kept) + 1 >= min THEN Append(kept, i)
    ELSE SafetyFrom(docs, i + 1, Append(kept, i), min)
\* no safety net
SafetyNet_Off(docs, kept, min) == kept

SafetyNet(docs, kept, min) ==
    IF Len(kept) < min THEN SafetyFrom(docs, 1, kept, min) ELSE kept

\* the fallback taken when nothing at all was kept
TotalFallback(docs, kept, min) ==
    IF kept = <<>> THEN Prefix([i \in 1..Len(docs) |-> i], Min(min, Len(docs)))
    ELSE kept

\* the removal of the documents whose stripped text was seen already
RECURSIVE TextDedupeFrom(_, _, _, _, _)
TextDedupeFrom(docs, kept, i, seen_texts, deduped) ==
    IF i > Len(kept) THEN deduped
    ELSE LET key == Strip(Get(docs[kept[i]], "text", <<>>))
         IN IF key \in seen_texts
            THEN TextDedupeFrom(docs, kept, i + 1, seen_texts, deduped)
            ELSE TextDedupeFrom(docs, kept, i + 1, seen_texts \cup {key},
                                Append(deduped, kept[i]))
\* no deduplication
TextDedupe_Off(docs, kept) == kept

TextDedupe(docs, kept) == TextDedupeFrom(docs, kept, 1, {}, <<>>)

BareHeadingLimit == 120
\* a floor twice as high
TruncateFloor_Doubled == 2 * 500

TruncateFloor == 500
Ellipsis == <<".", ".", ".">>

\* the truncated text without the marker
Truncated_NoMarker(text, remaining) == Prefix(text, remaining)

\* text[:remaining] + "..."
Truncated(text, remaining) == Prefix(text, remaining) \o Ellipsis

\* what the packing pass adds for one document: only the lengths of the texts
\* are added to total_chars
AddedChars(parts, text) == Len(text)

\* the packing pass: the entries, the characters counted, the documents the
\* entries were made of, and where and why the loop was left (at = 0: the
\* list was exhausted)
NoStop == [at |-> 0, cause |-> "exhausted"]
RECURSIVE PackFrom(_, _, _, _, _, _, _, _)
PackFrom(docs, kept, i, parts, total, maxc, maxd, added) ==
    IF i > Len(kept)
    THEN [context_parts |-> parts, total_chars |-> total, packed |-> added,
          pack_stop |-> NoStop]
    ELSE LET text == Strip(Get(docs[kept[i]], "text", <<>>))
             remaining == maxc - total
         IN IF text = <<>>
            THEN PackFrom(docs, kept, i + 1, parts, total, maxc, maxd, added)
            ELSE IF /\ Len(text) < BareHeadingLimit
                    /\ ~InSeq(".", text)
                    /\ ~InSeq("\n", text)
                    /\ Len(parts) > 0
            THEN PackFrom(docs, kept, i + 1, parts, total, maxc, maxd, added)
            ELSE IF Len(parts) >= maxd
            THEN [context_parts |-> parts, total_chars |-> total, packed |-> added,
                  pack_stop |-> [at |-> i, cause |-> "max_docs"]]
            ELSE IF total + AddedChars(parts, text) > maxc
            THEN IF remaining > TruncateFloor
                 THEN [context_parts |-> Append(parts, Truncated(text, remaining)),
                       total_chars |-> total,
                       packed |-> Append(added, kept[i]),
                       pack_stop |-> [at |-> i, cause |-> "truncated"]]
                 ELSE [context_parts |-> parts, total_chars |-> total,
                       packed |-> added,
                       pack_stop |-> [at |-> i, cause |-> "no_room"]]
            ELSE PackFrom(docs, kept, i + 1, Append(parts, text),
                          total + AddedChars(parts, text), maxc, maxd,
                          Append(added, kept[i]))

\* sep.join(parts)
RECURSIVE Join(_, _)
Join(parts, sep) ==
    IF parts = <<>> THEN <<>>
    ELSE IF Len(parts) = 1 THEN parts[1]
    ELSE parts[1] \o sep \o Join(Tail(parts), sep)

build_context(q, docs, maxc, maxd, min) ==
    IF docs = <<>>
    THEN [after_filter |-> <<>>, after_safety |-> <<>>, after_fallback |-> <<>>,
          filtered_docs |-> <<>>, context_parts |-> <<>>, total_chars |-> 0,
          packed |-> <<>>, pack_stop |-> NoStop, context |-> <<>>]
    ELSE LET filtered == FilterPass(q, docs)
             widened == SafetyNet(docs, filtered, min)
             fallen == TotalFallback(docs, widened, min)
             kept == TextDedupe(docs, fallen)
             pass == PackFrom(docs, kept, 1, <<>>, 0, maxc, maxd, <<>>)
         IN [after_filter |-> filtered,
             after_safety |-> widened,
             after_fallback |-> fallen,
             filtered_docs |-> kept,
             context_parts |-> pass.context_parts,
             total_chars |-> pass.total_chars,
             packed |-> pass.packed,
             pack_stop |-> pass.pack_stop,
             context |-> Join(pass.context_parts, <<"\n", "\n">>)]

(***************************************************************************)
(* RAGService.split_text_semantic.                                         *)
(***************************************************************************)
\* text.split('\n')
RECURSIVE SplitLinesFrom(_, _, _, _)
SplitLinesFrom(s, i, line, lines) ==
    IF i > Len(s) THEN Append(lines, line)
    ELSE IF s[i] = "\n" THEN SplitLinesFrom(s, i + 1, <<>>, Append(lines, line))
    ELSE SplitLinesFrom(s, i + 1, Append(line, s[i]), lines)
SplitLines(s) == SplitLinesFrom(s, 1, <<>>, <<>>)

\* len(line.split()): the number of maximal runs of non-whitespace
WordCount(line) ==
    Cardinality({i \in 1..Len(line) :
                    /\ line[i] \notin SpaceChars
                    /\ (i = 1 \/ line[i - 1] \in SpaceChars)})

\* str.isupper(): there is a cased character and none is lower-case
IsUpper(s) ==
    /\ \E i \in 1..Len(s) : s[i] \in UpperChars
    /\ \A i \in 1..Len(s) : s[i] \notin LowerChars

RomanChars == {"i", "v", "x", "l", "c", "d", "m", "I", "V", "X", "L", "C", "D", "M"}
BulletChars == {"-", "*"}

\* re.match(r"^(\d+\.|[ivxlcdm]+\.|[bullet\-*])\s+", s, re.IGNORECASE)
NumberedOrBullet(s) ==
    \/ \E k \in 1..(Len(s) - 2) :
          /\ \/ \A i \in 1..k : s[i] \in DigitChars
             \/ \A i \in 1..k : s[i] \in RomanChars
          /\ s[k + 1] = "."
          /\ s[k + 2] \in SpaceChars
    \/ Len(s) >= 2 /\ s[1] \in BulletChars /\ s[2] \in SpaceChars

HeadingMaxLen == 180
NumberedMaxLen == 160
UpperMaxWords == 8
TitleMaxWords == 6

is_heading(line) ==
    IF Len(line) > HeadingMaxLen THEN FALSE
    ELSE IF line # <<>> /\ line[1] = "#" THEN TRUE
    ELSE IF IsUpper(line) /\ WordCount(line) <= UpperMaxWords THEN TRUE
    ELSE IF NumberedOrBullet(Strip(line)) THEN Len(line) <= NumberedMaxLen
    ELSE line # <<>> /\ line[1] \in UpperChars /\ WordCount(line) <= TitleMaxWords

SentenceEnd == {".", "!", "?"}

\* nltk.sent_tokenize(line) when the tokenizer works: a sentence ends at a
\* terminator that whitespace follows, and the whitespace between two
\* sentences belongs to neither
RECURSIVE TokenizeFrom(_, _, _, _)
TokenizeFrom(line, i, sent, sents) ==
    IF i > Len(line) THEN (IF sent = <<>> THEN sents ELSE Append(sents, sent))
    ELSE IF line[i] \in SpaceChars /\ sent = <<>>
    THEN TokenizeFrom(line, i + 1, sent, sents)
    ELSE IF line[i] \in SpaceChars /\ sent[Len(sent)] \in SentenceEnd
    THEN TokenizeFrom(line, i + 1, <<>>, Append(sents, sent))
    ELSE TokenizeFrom(line, i + 1, Append(sent, line[i]), sents)

\* the try/except around nltk.sent_tokenize: the line itself when it raises
sent_tokenize(line, ok) ==
    IF ok THEN TokenizeFrom(line, 1, <<>>, <<>>) ELSE <<line>>

MinSentenceLen == 3

\* the sentences of a line the loop does not skip
Sentences(line, heading, ok) ==
    LET raw == IF heading THEN <<line>> ELSE sent_tokenize(line, ok)
        stripped == [j \in 1..Len(raw) |-> Strip(raw[j])]
    IN SelectSeq(stripped, LAMBDA s : Len(s) >= MinSentenceLen)

\* the sentence without its heading
WithContext_Bare(sent, heading, last_header) == sent

\* f"{last_header}: {sent}"
WithContext(sent, heading, last_header) ==
    IF ~heading /\ last_header # <<>> THEN last_header \o <<":", " ">> \o sent
    ELSE sent

\* the strings of current_chunk; an item records whether it is an overlap seed
Strings(items) == [j \in 1..Len(items) |-> items[j].s]

\* the test that prepends last_header to a chunk that does not hold it
NeedsHeader(last_header, items) ==
    last_header # <<>> /\ ~Contains(Join(Strings(items), <<" ">>), last_header)

\* chunk_text of a close
ChunkText(last_header, items) ==
    IF NeedsHeader(last_header, items)
    THEN last_header \o <<"\n">> \o Join(Strings(items), <<" ">>)
    ELSE Join(Strings(items), <<" ">>)

\* chunks.append(chunk_text), and what was closed, why, and at which line
Close(st, cause, line) ==
    [st EXCEPT !.chunks = Append(@, ChunkText(st.last_header, st.current_chunk)),
               !.closes = Append(@, [items |-> st.current_chunk,
                                     header |-> st.last_header,
                                     prepended |-> NeedsHeader(st.last_header, st.current_chunk),
                                     tracked |-> st.current_chunk_len,
                                     cause |-> cause,
                                     by |-> line])]

\* chunk_text[-overlap:] for overlap > 0
Suffix(s, k) == IF k >= Len(s) THEN s ELSE SubSeq(s, Len(s) - k + 1, Len(s))

\* overlap_buf, were it kept at a heading close as well
Reset_KeepOverlap(chunk_text, ov) ==
    IF ov > 0 THEN <<[s |-> Suffix(chunk_text, ov), seed |-> TRUE]>> ELSE <<>>

\* current_chunk = [] of the heading close
Reset(chunk_text, ov) == <<>>

\* overlap_buf
OverlapBuf(chunk_text, ov, heading) ==
    IF ov > 0 /\ ~heading THEN <<[s |-> Suffix(chunk_text, ov), seed |-> TRUE]>>
    ELSE <<>>

\* current_chunk.append(sent_with_context), replaced by a list of that item
Appended_Alone(current_chunk, sent_with_context) ==
    <<[s |-> sent_with_context, seed |-> FALSE]>>

\* current_chunk.append(sent_with_context)
Appended(current_chunk, sent_with_context) ==
    Append(current_chunk, [s |-> sent_with_context, seed |-> FALSE])

\* the size test without the test of the accumulator
MustClose_EvenEmpty(new_len, size, current_chunk) == new_len > size

\* if new_len > chunk_size and current_chunk
MustClose(new_len, size, current_chunk) == new_len > size /\ current_chunk # <<>>

\* the loop over the sentences of a line
RECURSIVE SentLoop(_, _, _, _, _, _, _)
SentLoop(st, sentences, j, line, heading, size, ov) ==
    IF j > Len(sentences) THEN st
    ELSE LET sent_with_context == WithContext(sentences[j], heading, st.last_header)
             new_len == st.current_chunk_len + Len(sent_with_context) + 1
             closed == Close(st, "size", line)
             \* current_chunk_len = sum(len(x) for x in overlap_buf) is
             \* overwritten by new_len below before it is read
             st2 == IF MustClose(new_len, size, st.current_chunk)
                    THEN [closed EXCEPT !.current_chunk =
                              OverlapBuf(closed.chunks[Len(closed.chunks)], ov, heading)]
                    ELSE st
         IN SentLoop([st2 EXCEPT !.current_chunk = Appended(@, sent_with_context),
                                 !.current_chunk_len = new_len],
                     sentences, j + 1, line, heading, size, ov)

\* the loop over the lines
RECURSIVE LineLoop(_, _, _, _, _, _)
LineLoop(st, lines, i, size, ov, ok) ==
    IF i > Len(lines) THEN st
    ELSE LET line == Strip(lines[i])
             heading == is_heading(line)
             st1 == IF heading /\ st.current_chunk # <<>>
                    THEN LET closed == Close(st, "heading", line)
                         IN [closed EXCEPT !.current_chunk =
                                               Reset(closed.chunks[Len(closed.chunks)], ov),
                                           !.current_chunk_len = 0]
                    ELSE st
             st2 == IF heading THEN [st1 EXCEPT !.last_header = line] ELSE st1
         IN IF line = <<>> THEN LineLoop(st, lines, i + 1, size, ov, ok)
            ELSE LineLoop(SentLoop(st2, Sentences(line, heading, ok), 1, line, heading, size, ov),
                          lines, i + 1, size, ov, ok)

\* split_text_semantic(text, chunk_size, overlap): the chunks returned, and
\* the accumulator of each chunk closed by the loop
split_text_semantic(raw, size, ov, ok) ==
    LET cleaned == clean_pdf_artifacts(raw)
        start == [chunks |-> <<>>, closes |-> <<>>, current_chunk |-> <<>>,
                  current_chunk_len |-> 0, last_header |-> <<>>]
        looped == LineLoop(start, SplitLines(cleaned), 1, size, ov, ok)
        done == IF looped.current_chunk # <<>> THEN Close(looped, "end", <<>>) ELSE looped
    IN IF cleaned = <<>> THEN [chunks |-> <<>>, closes |-> <<>>]
       ELSE IF Len(cleaned) <= size THEN [chunks |-> <<cleaned>>, closes |-> <<>>]
       ELSE [chunks |-> IF done.chunks # <<>> THEN done.chunks ELSE <<cleaned>>,
             closes |-> done.closes]

NThreads == 2

(***************************************************************************)
(* The variables of a component while no call of it is made.               *)
(***************************************************************************)
\* no search call was made: the service as constructed
SearchCallIdle ==
    /\ heap = <<>>
    /\ vector_results = <<>>
    /\ top_k = 0
    /\ candidates_list = <<>>
    /\ rr_docs = <<>>
    /\ rr_top_k = 0
    /\ rr_out = NoOutcome
    /\ rr_reranker = None
    /\ rr_result = <<>>
    /\ result = <<>>

SearchIdle ==
    /\ SearchCallIdle
    /\ use_reranker = FALSE
    /\ reranker_model = None

\* no thread is loading a model: the services as constructed
Threads == 1..NThreads
Handles == {"embedding", "reranker", "gguf"}
Free == 0
IdleThread == [pc |-> "idle", h |-> "none", ret |-> None, err |-> "none",
               waited |-> FALSE]
LoadIdle ==
    /\ embedding_model = None
    /\ gguf_model = None
    /\ rag_lock = Free
    /\ gguf_lock = Free
    /\ llama_available = TRUE
    /\ th = [t \in Threads |-> IdleThread]
    /\ calls = 0
    /\ built = [h \in Handles |-> <<>>]
    /\ ctor_runs = [h \in Handles |-> 0]

\* no call of build_context was made
ContextIdle ==
    /\ query = <<>>
    /\ ctx_documents = <<>>
    /\ max_chars = 0
    /\ max_docs = 0
    /\ min_docs = 0
    /\ filtered_docs = <<>>
    /\ context_parts = <<>>
    /\ total_chars = 0
    /\ context = <<>>
    /\ after_filter = <<>>
    /\ after_safety = <<>>
    /\ after_fallback = <<>>
    /\ packed = <<>>
    /\ pack_stop = NoStop

\* no call of split_text_semantic was made
ChunkIdle ==
    /\ raw_text = <<>>
    /\ chunk_size = 0
    /\ overlap = 0
    /\ punkt_ok = TRUE
    /\ chunks = <<>>
    /\ closes = <<>>

\* no request to /ask was made
AskIdle ==
    /\ ask_at = "none"
    /\ raw_tokens = <<>>
    /\ next_raw = 0
    /\ started = FALSE
    /\ yielded = <<>>
    /\ events = <<>>

\* no call of the sanitizer was made
SanitizeIdle ==
    /\ san_in = <<>>
    /\ san_arg = <<>>
    /\ san_out = <<>>
    /\ san_calls = 0

(***************************************************************************)
(* The search entry points called on a list of candidate documents.        *)
(***************************************************************************)
MaxDocs == 3
MaxTopK == 2

\* the Documents candidate lists are drawn from: two ids that are the same
\* once stringified, a second id, a blank text, no id, an empty id, a null id
DocPool ==
    { [id |-> StrVal(<<"7">>), text |-> <<"a">>],
      [id |-> IntVal(7), text |-> <<"b">>],
      [id |-> StrVal(<<"8">>), text |-> <<" ">>],
      [text |-> <<"d">>],
      [id |-> StrVal(<<>>), text |-> <<"e">>],
      [id |-> NoneVal, text |-> <<"f">>] }

\* the scores predict() may return, and the ways a call may go for n documents
ScoreVals == {0 - 1, 1}
Outcomes(n) ==
    {[ctor_ok |-> FALSE, predict |-> "none", scores |-> <<>>, fail_at |-> 0],
     [ctor_ok |-> TRUE, predict |-> "raise", scores |-> <<>>, fail_at |-> 0]}
    \cup {o \in [ctor_ok : {TRUE}, predict : {"scores"},
                 scores : SeqsUpTo(ScoreVals, n), fail_at : 0..n] :
            o.fail_at <= Len(o.scores)}

\* [0, 1, ..., n - 1] + 1: a list holding a reference to each document
Refs(n) == [i \in 1..n |-> i]

InitSearch ==
    /\ pc = "search"
    /\ heap \in SeqsUpTo(DocPool, MaxDocs)
    /\ vector_results = Refs(Len(heap))
    /\ top_k \in 0..MaxTopK
    /\ use_reranker \in BOOLEAN
    /\ reranker_model = None
    /\ candidates_list = <<>>
    /\ rr_docs = <<>>
    /\ rr_top_k = 0
    /\ rr_out = NoOutcome
    /\ rr_reranker = None
    /\ rr_result = <<>>
    /\ result = <<>>
    /\ SanitizeIdle
    /\ AskIdle
    /\ LoadIdle
    /\ ContextIdle
    /\ ChunkIdle

\* the Documents rerank_documents is called on directly: a text, a blank
\* text, and a document that holds a rerank_score already
RerankPool ==
    { [text |-> <<"a">>],
      [text |-> <<" ">>],
      [text |-> <<"c">>, rerank_score |-> 1] }

InitRerank ==
    /\ pc = "rerank"
    /\ heap \in SeqsUpTo(RerankPool, MaxDocs)
    /\ vector_results = Refs(Len(heap))
    /\ top_k \in 0..MaxTopK
    /\ use_reranker \in BOOLEAN
    /\ reranker_model = None
    /\ candidates_list = <<>>
    /\ rr_docs = <<>>
    /\ rr_top_k = 0
    /\ rr_out = NoOutcome
    /\ rr_reranker = None
    /\ rr_result = <<>>
    /\ result = <<>>
    /\ SanitizeIdle
    /\ AskIdle
    /\ LoadIdle
    /\ ContextIdle
    /\ ChunkIdle

\* rerank_documents(query, vector_results, top_k) called directly
RerankDocuments ==
    /\ pc = "rerank"
    /\ \E out \in (IF use_reranker THEN Outcomes(Len(vector_results)) ELSE {NoOutcome}) :
         LET r == rerank_documents(heap, reranker_model, use_reranker,
                                   vector_results, top_k, out)
         IN /\ heap' = r.heap
            /\ reranker_model' = r.model
            /\ rr_docs' = vector_results
            /\ rr_top_k' = top_k
            /\ rr_out' = out
            /\ rr_reranker' = r.reranker
            /\ rr_result' = r.ret
    /\ pc' = "reranked"
    /\ UNCHANGED <<vector_results, top_k, use_reranker, candidates_list, result,
                   sanVars, askVars, loadVars, ctxVars, chunkVars>>

\* rerank_k, with the factor left out
RerankK_NoOverfetch(k, n) == Min(k - 1, n)

\* rerank_k = min(top_k * 3, len(candidates_list))
RerankK(k, n) == Min(k * 3, n)

\* the whole list returned instead of its first top_k documents
TopK_All(list, k) == list

\* reranked[:top_k], candidates_list[:top_k]
TopK(list, k) == Prefix(list, k)

\* advanced_search(bot_id, query, vector_results, top_k): what a call does
SearchCall ==
    LET cl == Dedupe(heap, vector_results)
    IN /\ candidates_list' = cl
       /\ IF cl = <<>>
          THEN /\ result' = <<>>
               /\ UNCHANGED <<heap, reranker_model, rr_docs, rr_top_k, rr_out,
                              rr_reranker, rr_result>>
          ELSE IF use_reranker
          THEN \E out \in Outcomes(Len(cl)) :
                 LET rerank_k == RerankK(top_k, Len(cl))
                     r == rerank_documents(heap, reranker_model, use_reranker,
                                           cl, rerank_k, out)
                 IN /\ heap' = r.heap
                    /\ reranker_model' = r.model
                    /\ rr_docs' = cl
                    /\ rr_top_k' = rerank_k
                    /\ rr_out' = out
                    /\ rr_reranker' = r.reranker
                    /\ rr_result' = r.ret
                    /\ result' = TopK(r.ret, top_k)
          ELSE /\ result' = TopK(cl, top_k)
               /\ UNCHANGED <<heap, reranker_model, rr_docs, rr_top_k, rr_out,
                              rr_reranker, rr_result>>

\* advanced_search called directly
AdvancedSearch ==
    /\ pc = "search"
    /\ SearchCall
    /\ pc' = "searched"
    /\ UNCHANGED <<vector_results, top_k, use_reranker, sanVars, askVars, loadVars, ctxVars, chunkVars>>

NextRerank == RerankDocuments

SpecRerank == InitRerank /\ [][NextRerank]_vars

NextSearch == AdvancedSearch

SpecSearch == InitSearch /\ [][NextSearch]_vars

(***************************************************************************)
(* The sanitizer called on a raw text, and again on its own output.        *)
(***************************************************************************)
MaxRawLen == 5
MaxSanCalls == 2

\* the characters raw texts are drawn from: a word character, the four
\* whitespace characters that matter, a removed control, a removed symbol
RawChars == {"a", " ", "\n", "\t", "\r", "\f", "@"}

RawTexts == SeqsUpTo(RawChars, MaxRawLen)

InitSanitize ==
    /\ pc = "sanitize"
    /\ san_in \in RawTexts
    /\ san_arg = <<>>
    /\ san_out = <<>>
    /\ san_calls = 0
    /\ SearchIdle
    /\ LoadIdle
    /\ ContextIdle
    /\ ChunkIdle
    /\ AskIdle

\* one call of clean_pdf_artifacts; the second and later calls are made on
\* what the previous call returned
Sanitize ==
    /\ pc = "sanitize"
    /\ san_calls < MaxSanCalls
    /\ LET arg == IF san_calls = 0 THEN san_in ELSE san_out
       IN /\ san_arg' = arg
          /\ san_out' = clean_pdf_artifacts(arg)
    /\ san_calls' = san_calls + 1
    /\ UNCHANGED <<pc, san_in, searchVars, loadVars, ctxVars, chunkVars, askVars>>

NextSanitize == Sanitize

SpecSanitize == InitSanitize /\ [][NextSanitize]_vars

(***************************************************************************)
(* Lazy loading of the model handles by concurrent threads:                *)
(* RAGService.load_embedding_model and load_reranker_model share           *)
(* RAGService._lock; ModelServiceGGUF.load_model has its own lock.  A      *)
(* thread is at "acquire" while it waits at `with self._lock`, at "locked" *)
(* once it holds the lock, and at "ctor" while the constructor runs (the   *)
(* lock still held).                                                       *)
(***************************************************************************)
MaxCalls == 3

\* validate_settings() ends the process at import unless these are set
EmbeddingConfigured == TRUE
GgufPathConfigured == TRUE

LockHolder(h) == IF h = "gguf" THEN gguf_lock ELSE rag_lock

HandleValue(h) ==
    CASE h = "embedding" -> embedding_model
      [] h = "reranker" -> reranker_model
      [] h = "gguf" -> gguf_model

\* a lock that never makes a caller wait
LockFree_Always(holder) == TRUE

\* threading.Lock: `with self._lock` goes on only while no thread holds it
LockFree(holder) == holder = Free

\* the call of thread t ends and the lock stays with it
Leave_KeepLock(t, value, error) ==
    /\ th' = [th EXCEPT ![t] = [@ EXCEPT !.pc = "idle", !.ret = value, !.err = error]]
    /\ UNCHANGED <<rag_lock, gguf_lock>>

\* the call of thread t ends: the lock, if held, is released on leaving `with`
Leave(t, value, error) ==
    /\ th' = [th EXCEPT ![t] = [@ EXCEPT !.pc = "idle", !.ret = value, !.err = error]]
    /\ rag_lock' = IF rag_lock = t THEN Free ELSE rag_lock
    /\ gguf_lock' = IF gguf_lock = t THEN Free ELSE gguf_lock

\* thread t calls load_embedding_model, load_reranker_model or load_model
Call(t, h) ==
    /\ pc = "load"
    /\ th[t].pc = "idle"
    /\ calls < MaxCalls
    /\ calls' = calls + 1
    /\ IF h = "gguf" /\ ~llama_available
       THEN \* raise ImportError, before the lock is touched
            /\ th' = [th EXCEPT ![t] = [@ EXCEPT !.h = h, !.ret = None,
                                                 !.err = "ImportError",
                                                 !.waited = FALSE]]
       ELSE /\ th' = [th EXCEPT ![t] = [@ EXCEPT !.pc = "acquire", !.h = h,
                                                 !.ret = None, !.err = "none",
                                                 !.waited = (LockHolder(h) # Free)]]
    /\ UNCHANGED <<pc, ctxVars, chunkVars, sanVars, askVars, searchVars, embedding_model, gguf_model, rag_lock,
                   gguf_lock, llama_available, built, ctor_runs>>

\* with self._lock: entered
Acquire(t) ==
    /\ pc = "load"
    /\ th[t].pc = "acquire"
    /\ LockFree(LockHolder(th[t].h))
    /\ IF th[t].h = "gguf"
       THEN gguf_lock' = t /\ rag_lock' = rag_lock
       ELSE rag_lock' = t /\ gguf_lock' = gguf_lock
    /\ th' = [th EXCEPT ![t].pc = "locked"]
    /\ UNCHANGED <<pc, ctxVars, chunkVars, sanVars, askVars, searchVars, embedding_model, gguf_model,
                   llama_available, calls, built, ctor_runs>>

\* the tests made under the lock before the constructor is called
Check(t) ==
    /\ pc = "load"
    /\ th[t].pc = "locked"
    /\ LET h == th[t].h
           construct ==
               /\ th' = [th EXCEPT ![t].pc = "ctor"]
               /\ ctor_runs' = [ctor_runs EXCEPT ![h] = @ + 1]
               /\ UNCHANGED <<rag_lock, gguf_lock>>
           leave(value, error) == Leave(t, value, error) /\ UNCHANGED ctor_runs
       IN CASE h = "embedding" ->
                 IF embedding_model # None THEN leave(embedding_model, "none")
                 ELSE IF ~EmbeddingConfigured THEN leave(None, "ValueError")
                 ELSE construct
            [] h = "reranker" ->
                 IF reranker_model = None /\ use_reranker THEN construct
                 ELSE leave(reranker_model, "none")
            [] h = "gguf" ->
                 IF gguf_model # None THEN leave(gguf_model, "none")
                 ELSE IF ~GgufPathConfigured THEN leave(None, "ValueError")
                 ELSE \E exists \in BOOLEAN :
                        IF exists THEN construct
                        ELSE leave(None, "FileNotFoundError")
    /\ UNCHANGED <<pc, ctxVars, chunkVars, sanVars, askVars, searchVars, embedding_model, gguf_model,
                   llama_available, calls, built>>

\* the constructor returns an instance: it is stored in the handle and returned
CtorOk(t) ==
    /\ pc = "load"
    /\ th[t].pc = "ctor"
    /\ LET h == th[t].h
           inst == Len(built[h]) + 1
       IN /\ built' = [built EXCEPT ![h] = Append(@, inst)]
          /\ embedding_model' = IF h = "embedding" THEN inst ELSE embedding_model
          /\ reranker_model' = IF h = "reranker" THEN inst ELSE reranker_model
          /\ gguf_model' = IF h = "gguf" THEN inst ELSE gguf_model
          /\ Leave(t, inst, "none")
    /\ UNCHANGED <<pc, ctxVars, chunkVars, sanVars, askVars, heap, vector_results, top_k, use_reranker,
                   candidates_list, rr_docs, rr_top_k, rr_out, rr_reranker,
                   rr_result, result, llama_available, calls, ctor_runs>>

\* the constructor raises: load_reranker_model catches it and returns None,
\* the other two let it propagate; the handle stays None
CtorFail(t) ==
    /\ pc = "load"
    /\ th[t].pc = "ctor"
    /\ IF th[t].h = "reranker" THEN Leave(t, None, "none")
                               ELSE Leave(t, None, "ConstructorError")
    /\ UNCHANGED <<pc, ctxVars, chunkVars, sanVars, askVars, searchVars, embedding_model, gguf_model,
                   llama_available, calls, built, ctor_runs>>

InitLoad ==
    /\ pc = "load"
    /\ embedding_model = None
    /\ gguf_model = None
    /\ reranker_model = None
    /\ rag_lock = Free
    /\ gguf_lock = Free
    /\ llama_available \in BOOLEAN
    /\ use_reranker \in BOOLEAN
    /\ th = [t \in Threads |-> IdleThread]
    /\ calls = 0
    /\ built = [h \in Handles |-> <<>>]
    /\ ctor_runs = [h \in Handles |-> 0]
    /\ SearchCallIdle
    /\ SanitizeIdle
    /\ AskIdle
    /\ ContextIdle
    /\ ChunkIdle

NextLoad ==
    \E t \in Threads :
        \/ \E h \in Handles : Call(t, h)
        \/ Acquire(t)
        \/ Check(t)
        \/ CtorOk(t)
        \/ CtorFail(t)

SpecLoad == InitLoad /\ [][NextLoad]_vars

(***************************************************************************)
(* The context assembler: one call of build_context.                       *)
(***************************************************************************)
MaxCtxDocs == 2

\* the documents the lists are drawn from: a bare heading, two short texts
\* (one of two lines), a text equal to another once stripped, a document
\* without text, and two texts longer than the 500 characters below which
\* nothing is truncated, one of them behind a space
CtxPool ==
    { [text |-> <<"I", "n", "t", "r", "o">>],
      [text |-> <<"a", "a", "a", "a", ".">>, rerank_score |-> 2],
      [text |-> <<"I", "n", "t", "r", "o", "\n", "b", "b", "b", "b", ".">>,
       rerank_score |-> 1],
      [text |-> <<" ", "a", "a", "a", "a", ".", " ">>],
      [rerank_score |-> 0],
      [text |-> Rep(<<"a">>, 600) \o <<".">>, rerank_score |-> 2],
      [text |-> <<" ">> \o Rep(<<"b", "b", "b", "b", " ">>, 140) \o <<".">>] }

CtxQueries ==
    { <<>>,
      <<"b", "b", "b", "b">>,
      <<"A", "a", "a", "a", " ", "i", "t">> }

MaxCharsVals == {10, 16, 650, 1200}
MaxDocsVals == {1, 30}
MinDocsVals == {0, 2}

InitContext ==
    /\ pc = "context"
    /\ query \in CtxQueries
    /\ ctx_documents \in SeqsUpTo(CtxPool, MaxCtxDocs)
    /\ max_chars \in MaxCharsVals
    /\ max_docs \in MaxDocsVals
    /\ min_docs \in MinDocsVals
    /\ filtered_docs = <<>>
    /\ context_parts = <<>>
    /\ total_chars = 0
    /\ context = <<>>
    /\ after_filter = <<>>
    /\ after_safety = <<>>
    /\ after_fallback = <<>>
    /\ packed = <<>>
    /\ pack_stop = NoStop
    /\ SanitizeIdle
    /\ AskIdle
    /\ SearchIdle
    /\ LoadIdle
    /\ ChunkIdle

\* build_context(query, ctx_documents, max_chars, max_docs, min_docs)
BuildContext ==
    /\ pc = "context"
    /\ \E r \in {build_context(query, ctx_documents, max_chars, max_docs, min_docs)} :
          /\ filtered_docs' = r.filtered_docs
          /\ context_parts' = r.context_parts
          /\ total_chars' = r.total_chars
          /\ context' = r.context
          /\ after_filter' = r.after_filter
          /\ after_safety' = r.after_safety
          /\ after_fallback' = r.after_fallback
          /\ packed' = r.packed
          /\ pack_stop' = r.pack_stop
    /\ pc' = "built"
    /\ UNCHANGED <<query, ctx_documents, max_chars, max_docs, min_docs,
                   sanVars, askVars, searchVars, loadVars, chunkVars>>

NextContext == BuildContext

SpecContext == InitContext /\ [][NextContext]_vars

(***************************************************************************)
(* The /advanced-search endpoint: advanced_search, then build_context on   *)
(* the documents it returned.                                              *)
(***************************************************************************)
\* the defaults of build_context the endpoint leaves in place
DefaultMaxDocs == 30
DefaultMinDocs == 8

\* payload["query"] (never empty: the endpoint rejects an empty query) and
\* payload["max_context_chars"] (100000 when absent)
RouteQueries == {<<"t", "e", "x", "t">>}
RouteMaxChars == {100000}

\* the dicts a list of references holds
Deref(h, refs) == [i \in 1..Len(refs) |-> h[refs[i]]]

InitRoute ==
    /\ pc = "route"
    /\ heap \in SeqsUpTo(DocPool, MaxDocs)
    /\ vector_results = Refs(Len(heap))
    /\ top_k \in 0..MaxTopK
    /\ use_reranker \in BOOLEAN
    /\ reranker_model = None
    /\ candidates_list = <<>>
    /\ rr_docs = <<>>
    /\ rr_top_k = 0
    /\ rr_out = NoOutcome
    /\ rr_reranker = None
    /\ rr_result = <<>>
    /\ result = <<>>
    /\ query \in RouteQueries
    /\ max_chars \in RouteMaxChars
    /\ ctx_documents = <<>>
    /\ max_docs = DefaultMaxDocs
    /\ min_docs = DefaultMinDocs
    /\ filtered_docs = <<>>
    /\ context_parts = <<>>
    /\ total_chars = 0
    /\ context = <<>>
    /\ after_filter = <<>>
    /\ after_safety = <<>>
    /\ after_fallback = <<>>
    /\ packed = <<>>
    /\ pack_stop = NoStop
    /\ SanitizeIdle
    /\ AskIdle
    /\ LoadIdle
    /\ ChunkIdle

\* advanced_search_endpoint(payload)
AdvancedSearchEndpoint ==
    /\ pc = "route"
    /\ SearchCall
    /\ ctx_documents' = Deref(heap', result')
    /\ \E r \in {build_context(query, ctx_documents', max_chars, max_docs, min_docs)} :
          /\ filtered_docs' = r.filtered_docs
          /\ context_parts' = r.context_parts
          /\ total_chars' = r.total_chars
          /\ context' = r.context
          /\ after_filter' = r.after_filter
          /\ after_safety' = r.after_safety
          /\ after_fallback' = r.after_fallback
          /\ packed' = r.packed
          /\ pack_stop' = r.pack_stop
    /\ pc' = "responded"
    /\ UNCHANGED <<vector_results, top_k, use_reranker, query, max_chars,
                   max_docs, min_docs, sanVars, askVars, loadVars, chunkVars>>

NextRoute == AdvancedSearchEndpoint

SpecRoute == InitRoute /\ [][NextRoute]_vars

(***************************************************************************)
(* The chunker: one call of split_text_semantic.                           *)
(***************************************************************************)
MaxLines == 3

\* the lines the texts are made of: a title-case heading, a line of three
\* sentences, a blank line, a numbered heading that holds sentence breaks, a
\* heading shorter than a sentence, a line without a sentence break, and two
\* sentences around a tab with characters the sanitizer removes
LinePool ==
    { <<"T", "i", "t", "l", "e">>,
      <<"a", "b", "c", "d", ".", " ", "e", "f", "g", "h", ".", " ", "i", "j", "k", "l", ".">>,
      <<>>,
      <<"1", ".", " ", "m", "n", ".", " ", "o", "p", ".">>,
      <<"A", "b">>,
      Rep(<<"a">>, 20),
      <<"x", "y", ".", "\t", "z", "z", "z", "!", " ", "#", "@">> }

\* '\n'.join(lines)
Texts(n) == {Join(ls, <<"\n">>) : ls \in SeqsUpTo(LinePool, n)}

ChunkSizeVals == {4, 8, 12}
OverlapVals == {0, 4}

InitChunk ==
    /\ pc = "split"
    /\ raw_text \in Texts(MaxLines)
    /\ chunk_size \in ChunkSizeVals
    /\ overlap \in OverlapVals
    /\ punkt_ok \in BOOLEAN
    /\ chunks = <<>>
    /\ closes = <<>>
    /\ SanitizeIdle
    /\ AskIdle
    /\ SearchIdle
    /\ LoadIdle
    /\ ContextIdle

\* split_text_semantic(text, chunk_size, overlap)
SplitTextSemantic ==
    /\ pc = "split"
    /\ \E r \in {split_text_semantic(raw_text, chunk_size, overlap, punkt_ok)} :
          /\ chunks' = r.chunks
          /\ closes' = r.closes
    /\ pc' = "chunked"
    /\ UNCHANGED <<raw_text, chunk_size, overlap, punkt_ok,
                   sanVars, askVars, searchVars, loadVars, ctxVars>>

NextChunk == SplitTextSemantic

SpecChunk == InitChunk /\ [][NextChunk]_vars

(***************************************************************************)
(* The /ask endpoint: generate() of routes.py iterates                     *)
(* ModelServiceGGUF.generate_response_stream and yields one server-sent    *)
(* event per token, then the event done; an exception raised by the load   *)
(* of the model or by the llama stream is answered by an event error and   *)
(* the event done.  ask_at is "request" before the generator is first      *)
(* resumed, "stream" while it iterates the llama stream, "failed" while it *)
(* is suspended at the yield of the event error, "done" while it is        *)
(* suspended at the yield of the event done, "closed" once it returned.    *)
(***************************************************************************)
MaxTokens == 3

\* str.replace(old, ''): the occurrences of old are removed from left to right
RECURSIVE RemoveFrom(_, _, _, _)
RemoveFrom(s, old, i, out) ==
    IF i > Len(s) THEN out
    ELSE IF i + Len(old) - 1 <= Len(s) /\ SubSeq(s, i, i + Len(old) - 1) = old
    THEN RemoveFrom(s, old, i + Len(old), out)
    ELSE RemoveFrom(s, old, i + 1, Append(out, s[i]))
RemoveAll(s, old) == RemoveFrom(s, old, 1, <<>>)

\* the token without the opening and closing tags
StripTags(token) ==
    LET think == <<"t", "h", "i", "n", "k", ">">>
        thought == <<"t", "h", "o", "u", "g", "h", "t", ">">>
        t1 == RemoveAll(token, <<"<">> \o think)
        t2 == RemoveAll(t1, <<"<", "/">> \o think)
        t3 == RemoveAll(t2, <<"<">> \o thought)
    IN RemoveAll(t3, <<"<", "/">> \o thought)

\* str.isspace()
IsSpace(token) ==
    token # <<>> /\ \A i \in 1..Len(token) : token[i] \in SpaceChars

\* if not started: if not token or token.isspace(): continue
Skipped(is_started, token) == ~is_started /\ (token = <<>> \/ IsSpace(token))

\* the exceptions the except clauses of generate() tell apart
ErrorKinds == {"FileNotFoundError", "Exception"}

\* the events; the error event of an exception other than FileNotFoundError
\* has its message behind a fixed prefix
TokenEvent(token) == [type |-> "token", token |-> token, prefixed |-> FALSE]
ErrorEvent(kind) ==
    [type |-> "error", token |-> <<>>, prefixed |-> (kind # "FileNotFoundError")]
DoneEvent == [type |-> "done", token |-> <<>>, prefixed |-> FALSE]

\* the generator resumed after the event error, yielding nothing more
AfterError_Silent(evs) == evs

\* the yield of the event done in the except clauses
AfterError(evs) == Append(evs, DoneEvent)

\* the texts the llama stream may give: an empty text, a blank, a letter, a
\* tag alone, a tag around a letter
RawPool ==
    {<<>>, <<" ">>, <<"a">>, <<"<", "t", "h", "i", "n", "k", ">">>,
     <<"<", "t", "h", "i", "n", "k", ">", "b", "<", "/", "t", "h", "i", "n", "k", ">">>}

InitAsk ==
    /\ pc = "ask"
    /\ ask_at = "request"
    /\ raw_tokens \in SeqsUpTo(RawPool, MaxTokens)
    /\ next_raw = 1
    /\ started = FALSE
    /\ yielded = <<>>
    /\ events = <<>>
    /\ SanitizeIdle
    /\ SearchIdle
    /\ LoadIdle
    /\ ContextIdle
    /\ ChunkIdle

\* model = self.load_model(): it returns the model, or raises
AskLoad ==
    /\ pc = "ask"
    /\ ask_at = "request"
    /\ \E outcome \in {"ok"} \cup ErrorKinds :
          IF outcome = "ok"
          THEN ask_at' = "stream" /\ events' = events
          ELSE ask_at' = "failed" /\ events' = Append(events, ErrorEvent(outcome))
    /\ UNCHANGED <<pc, raw_tokens, next_raw, started, yielded,
                   sanVars, searchVars, loadVars, ctxVars, chunkVars>>

\* the llama stream gives its next text: it is skipped, or yielded and sent
AskToken ==
    /\ pc = "ask"
    /\ ask_at = "stream"
    /\ next_raw <= Len(raw_tokens)
    /\ LET token == StripTags(raw_tokens[next_raw])
       IN IF Skipped(started, token)
          THEN UNCHANGED <<started, yielded, events>>
          ELSE /\ started' = TRUE
               /\ yielded' = Append(yielded, token)
               /\ events' = Append(events, TokenEvent(token))
    /\ next_raw' = next_raw + 1
    /\ UNCHANGED <<pc, ask_at, raw_tokens,
                   sanVars, searchVars, loadVars, ctxVars, chunkVars>>

\* the llama stream raises
AskRaise ==
    /\ pc = "ask"
    /\ ask_at = "stream"
    /\ \E kind \in ErrorKinds : events' = Append(events, ErrorEvent(kind))
    /\ ask_at' = "failed"
    /\ UNCHANGED <<pc, raw_tokens, next_raw, started, yielded,
                   sanVars, searchVars, loadVars, ctxVars, chunkVars>>

\* the llama stream is exhausted: the event done of the try block
AskEnd ==
    /\ pc = "ask"
    /\ ask_at = "stream"
    /\ next_raw > Len(raw_tokens)
    /\ events' = Append(events, DoneEvent)
    /\ ask_at' = "done"
    /\ UNCHANGED <<pc, raw_tokens, next_raw, started, yielded,
                   sanVars, searchVars, loadVars, ctxVars, chunkVars>>

\* the generator is resumed after the event error
AskAfterError ==
    /\ pc = "ask"
    /\ ask_at = "failed"
    /\ events' = AfterError(events)
    /\ ask_at' = "done"
    /\ UNCHANGED <<pc, raw_tokens, next_raw, started, yielded,
                   sanVars, searchVars, loadVars, ctxVars, chunkVars>>

\* the generator is resumed after the event done, and returns
AskReturn ==
    /\ pc = "ask"
    /\ ask_at = "done"
    /\ ask_at' = "closed"
    /\ UNCHANGED <<pc, raw_tokens, next_raw, started, yielded, events,
                   sanVars, searchVars, loadVars, ctxVars, chunkVars>>

NextAsk ==
    \/ AskLoad
    \/ AskToken
    \/ AskRaise
    \/ AskEnd
    \/ AskAfterError
    \/ AskReturn

\* the response is iterated until the generator returns
SpecAsk == InitAsk /\ [][NextAsk]_vars /\ WF_vars(NextAsk)

(***************************************************************************)
(* Properties of the lazily loaded handles.                                *)
(***************************************************************************)
\* thread t is inside `with self._lock`
InLock(t) == th[t].pc \in {"locked", "ctor"}

\* no two threads are inside the same lock, and a thread inside holds it
MutualExclusion ==
    /\ \A t \in Threads : InLock(t) => LockHolder(th[t].h) = t
    /\ \A t1, t2 \in Threads :
          (t1 # t2 /\ InLock(t1) /\ InLock(t2)) =>
              LockHolder(th[t1].h) # LockHolder(th[t2].h)

\* the latest load call of thread t was for handle h and has returned or raised
Completed(t, h) == th[t].pc = "idle" /\ th[t].h = h

\* C8 (as claimed): for each handle, callers exclude one another, no two
\* callers ever both run the constructor, and every caller receives the same
\* instance.
C8_Original ==
    pc = "load" =>
        /\ MutualExclusion
        /\ \A h \in Handles :
              /\ ctor_runs[h] <= 1
              /\ \A t1, t2 \in Threads :
                    (Completed(t1, h) /\ Completed(t2, h)) => th[t1].ret = th[t2].ret

\* C8 (amended): for each handle, callers exclude one another inside the lock,
\* the constructor runs only under the lock while the handle is unset, at most
\* one constructor run succeeds and its instance is the handle from then on,
\* and every caller that receives an instance receives that one.
C8_Amended ==
    pc = "load" =>
        /\ MutualExclusion
        /\ \A h \in Handles :
              /\ Len(built[h]) <= 1
              /\ HandleValue(h) = IF built[h] = <<>> THEN None ELSE built[h][1]
              /\ \A t \in Threads :
                    /\ (th[t].pc = "ctor" /\ th[t].h = h) => HandleValue(h) = None
                    /\ (Completed(t, h) /\ th[t].ret # None) =>
                          (built[h] # <<>> /\ th[t].ret = built[h][1])

\* two threads called load_embedding_model at the same time: the second
\* waited for the lock, the constructor ran once, both received the instance
C8_Witness ==
    /\ pc = "load"
    /\ Completed(1, "embedding")
    /\ Completed(2, "embedding")
    /\ th[2].waited
    /\ calls = 2
    /\ ctor_runs["embedding"] = 1
    /\ th[1].ret = 1
    /\ th[2].ret = 1

\* the handle and the holder of its lock after a step
HandleAfter(h) ==
    CASE h = "embedding" -> embedding_model'
      [] h = "reranker" -> reranker_model'
      [] h = "gguf" -> gguf_model'

LockHolderAfter(h) == IF h = "gguf" THEN gguf_lock' ELSE rag_lock'

\* the load call of thread t ends in this step
Ends(t) == th[t] # th'[t] /\ th'[t].pc = "idle"

\* the call that ended was a failed initialization: it raised, or it is a
\* call of load_reranker_model that ran the constructor and returned None
FailedInit(t) ==
    \/ th'[t].err # "none"
    \/ th[t].pc = "ctor" /\ th'[t].ret = None

\* C24: a load call that ends in a failed initialization leaves the handle
\* unset and the lock free; a lock is held only by a thread that is inside
\* its `with` block, so no caller waits for a lock that is never released; a
\* caller that receives an instance receives one the constructor returned;
\* a call that finds the handle unset (and, for the reranker, reranking
\* enabled) runs the constructor or raises, whatever failed before; and
\* load_reranker_model never raises.
C24_FailedInitRecovers ==
    [][ \A t \in Threads :
          /\ (Ends(t) /\ FailedInit(t)) =>
                /\ HandleAfter(th'[t].h) = None
                /\ rag_lock' # t
                /\ gguf_lock' # t
          /\ Ends(t) =>
                /\ th'[t].h = "reranker" => th'[t].err = "none"
                /\ th'[t].ret # None =>
                      /\ th'[t].err = "none"
                      /\ built'[th'[t].h] # <<>>
                      /\ th'[t].ret = built'[th'[t].h][1]
          /\ (rag_lock' = t \/ gguf_lock' = t) =>
                /\ th'[t].pc \in {"locked", "ctor"}
                /\ LockHolderAfter(th'[t].h) = t
          /\ (/\ th[t].pc = "locked"
              /\ HandleValue(th[t].h) = None
              /\ th[t].h = "reranker" => use_reranker) =>
                \/ th'[t].pc \in {"locked", "ctor"}
                \/ th'[t].err # "none"
      ]_vars

\* the constructor of the embedding model was run twice: the call of thread
\* 1 raised, the call of thread 2, which had waited for the lock, received
\* the instance; and a call of load_reranker_model failed and returned None
C24_Witness ==
    /\ pc = "load"
    /\ ctor_runs["embedding"] = 2
    /\ Completed(1, "embedding")
    /\ th[1].err = "ConstructorError"
    /\ th[1].ret = None
    /\ Completed(2, "embedding")
    /\ th[2].waited
    /\ th[2].ret = 1
    /\ embedding_model = 1
    /\ rag_lock = Free

(***************************************************************************)
(* Properties of the deduplication by id.                                  *)
(***************************************************************************)
\* the place of document r in the list docs
PosIn(docs, r) == CHOOSE p \in 1..Len(docs) : docs[p] = r

\* C4: the deduplication step of advanced_search leaves at most one document
\* per stringified id, the first one seen, in first-seen order; documents with
\* a missing or empty id are left out, every other id is represented, and the
\* list is never longer than the input.
C4_DedupeFirstSeen ==
    pc = "searched" =>
        LET vr == vector_results
            cl == candidates_list
            id(r) == DocId(heap[r])
        IN /\ Len(cl) <= Len(vr)
           /\ \A k \in 1..Len(cl) : InSeq(cl[k], vr) /\ id(cl[k]) # <<>>
           /\ \A k, l \in 1..Len(cl) : k < l =>
                 /\ id(cl[k]) # id(cl[l])
                 /\ PosIn(vr, cl[k]) < PosIn(vr, cl[l])
           /\ \A k \in 1..Len(cl) : \A q \in 1..(PosIn(vr, cl[k]) - 1) :
                 id(vr[q]) # id(cl[k])
           /\ \A p \in 1..Len(vr) :
                 IF "id" \notin DOMAIN heap[vr[p]] \/ id(vr[p]) = <<>>
                 THEN ~InSeq(vr[p], cl)
                 ELSE \E k \in 1..Len(cl) : id(cl[k]) = id(vr[p])

\* two candidates share the id "7" (one as a str, one as an int) with different
\* texts, a candidate without id lies between them, and only the first is kept
C4_Witness ==
    /\ pc = "searched"
    /\ Len(vector_results) = 3
    /\ "id" \notin DOMAIN heap[2]
    /\ DocId(heap[1]) = <<"7">>
    /\ DocId(heap[3]) = <<"7">>
    /\ heap[1].text # heap[3].text
    /\ candidates_list = <<1>>

(***************************************************************************)
(* Properties of rerank_documents.                                         *)
(***************************************************************************)
\* the latest call of rerank_documents scored its documents and sorted them
Ranked ==
    /\ pc = "reranked"
    /\ rr_docs # <<>>
    /\ rr_reranker # None
    /\ rr_out.predict = "scores"
    /\ rr_out.fail_at = 0

\* the latest call of rerank_documents had no reranker, or its scoring failed
FellBack ==
    /\ pc = "reranked"
    /\ \/ rr_reranker = None
       \/ rr_out.predict = "raise"
       \/ rr_out.fail_at > 0

\* a ranks before b: a higher rerank_score, or the same and an earlier place
\* in the input
RanksBefore(a, b) ==
    \/ heap[a].rerank_score > heap[b].rerank_score
    \/ /\ heap[a].rerank_score = heap[b].rerank_score
       /\ PosIn(rr_docs, a) < PosIn(rr_docs, b)

\* res is the first k documents of rr_docs in ranking order
IsRankedPrefix(res, k) ==
    /\ Len(res) = Min(k, Len(rr_docs))
    /\ \A i \in 1..Len(res) : InSeq(res[i], rr_docs)
    /\ \A i, j \in 1..Len(res) : i < j => RanksBefore(res[i], res[j])
    /\ \A p \in 1..Len(rr_docs) : \A i \in 1..Len(res) :
          ~InSeq(rr_docs[p], res) => RanksBefore(res[i], rr_docs[p])

\* res is the first k documents of rr_docs in their original order
IsPassThrough(res, k) ==
    /\ Len(res) = Min(k, Len(rr_docs))
    /\ \A i \in 1..Len(res) : res[i] = rr_docs[i]

\* C5: when the reranker is available and returns scores, every document gets
\* the score returned for it and rerank_documents returns the first top_k
\* documents in descending order of rerank_score, documents of equal score in
\* the order they had in the input.
C5_SortedStable ==
    Ranked =>
        /\ \A i \in 1..Min(Len(rr_out.scores), Len(rr_docs)) :
              heap[rr_docs[i]].rerank_score = rr_out.scores[i]
        /\ IsRankedPrefix(rr_result, rr_top_k)

\* three documents scored -1, 1, 1 and top_k = 2: the two documents that tie
\* come back in input order and the first document is cut off
C5_Witness ==
    /\ Ranked
    /\ rr_out.scores = <<0 - 1, 1, 1>>
    /\ rr_top_k = 2
    /\ rr_result = <<2, 3>>

\* C6: when there is no reranker, or the scoring call or a later step of the
\* scoring block fails, rerank_documents returns the first top_k documents
\* of the input in their original order.
C6_FallbackPassThrough == FellBack => IsPassThrough(rr_result, rr_top_k)

\* the conversion of the second score failed after the first document was
\* scored, and the first two of three documents came back in input order
C6_Witness ==
    /\ FellBack
    /\ rr_reranker # None
    /\ rr_out.fail_at = 2
    /\ Len(rr_docs) = 3
    /\ rr_out.scores[1] = 0 - 1
    /\ heap[1].rerank_score = 0 - 1
    /\ rr_top_k = 2
    /\ rr_result = <<1, 2>>

\* C7 (as claimed): when predict() returns fewer scores than there are
\* documents, rerank_documents returns the first top_k documents in their
\* original order.
C7_Original ==
    (Ranked /\ Len(rr_out.scores) < Len(rr_docs)) =>
        IsPassThrough(rr_result, rr_top_k)

\* C7 (amended): when predict() returns fewer scores than there are documents,
\* the documents without a score get rerank_score 0.0 and rerank_documents
\* returns the first top_k documents in descending order of rerank_score,
\* equal scores in input order.
C7_Amended ==
    (Ranked /\ Len(rr_out.scores) < Len(rr_docs)) =>
        /\ \A i \in (Len(rr_out.scores) + 1)..Len(rr_docs) :
              /\ "rerank_score" \in DOMAIN heap[rr_docs[i]]
              /\ heap[rr_docs[i]].rerank_score = 0
        /\ IsRankedPrefix(rr_result, rr_top_k)

\* one score, -1, for two documents: the second document, scored 0.0 by
\* default, comes back first
C7_Witness ==
    /\ Ranked
    /\ rr_out.scores = <<0 - 1>>
    /\ Len(rr_docs) = 2
    /\ rr_top_k = 2
    /\ rr_result = <<2, 1>>

(***************************************************************************)
(* Properties of advanced_search.                                          *)
(***************************************************************************)
\* the latest call of advanced_search reranked its candidates with a reranker
\* that returned one score per candidate
SearchRanked ==
    /\ pc = "searched"
    /\ use_reranker
    /\ candidates_list # <<>>
    /\ rr_reranker # None
    /\ rr_out.predict = "scores"
    /\ rr_out.fail_at = 0
    /\ Len(rr_out.scores) = Len(candidates_list)

\* C11: with reranking enabled and one score returned per candidate,
\* advanced_search returns min(top_k, n) documents of the n deduplicated
\* candidates: rerank_documents is called on all of them with
\* rerank_k = min(top_k * 3, n), and the first top_k of its list are the
\* top_k highest-scored candidates in descending order of rerank_score.
C11_TopKOfReranked ==
    SearchRanked =>
        /\ rr_docs = candidates_list
        /\ rr_top_k = Min(top_k * 3, Len(candidates_list))
        /\ \A i \in 1..Len(candidates_list) :
              heap[candidates_list[i]].rerank_score = rr_out.scores[i]
        /\ Len(result) = Min(top_k, Len(candidates_list))
        /\ result = Prefix(rr_result, top_k)
        /\ IsRankedPrefix(result, top_k)

\* three candidates scored -1, 1, 1 and top_k = 1: all three are reranked and
\* the first of the two that tie is the one returned
C11_Witness ==
    /\ SearchRanked
    /\ Len(candidates_list) = 3
    /\ rr_out.scores = <<0 - 1, 1, 1>>
    /\ top_k = 1
    /\ rr_top_k = 3
    /\ result = <<candidates_list[2]>>

\* C12: with reranking disabled, advanced_search returns the first top_k
\* documents of the deduplicated candidates in the order they arrived, and
\* leaves every document as it was: no field is set on any of them.
C12_DisabledPassThrough ==
    [][(pc = "search" /\ pc' = "searched" /\ ~use_reranker) =>
          /\ heap' = heap
          /\ candidates_list' = Dedupe(heap, vector_results)
          /\ Len(result') = Min(top_k, Len(candidates_list'))
          /\ \A i \in 1..Len(result') : result'[i] = candidates_list'[i]]_vars

\* reranking disabled, three candidates left by the deduplication, top_k = 2:
\* the first two come back and no score was set
C12_Witness ==
    /\ pc = "searched"
    /\ ~use_reranker
    /\ Len(candidates_list) = 3
    /\ top_k = 2
    /\ result = <<candidates_list[1], candidates_list[2]>>
    /\ \A r \in 1..Len(heap) : "rerank_score" \notin DOMAIN heap[r]

(***************************************************************************)
(* Properties of the /advanced-search endpoint.                            *)
(***************************************************************************)
\* a request was answered in this step
Answered == pc = "route" /\ pc' = "responded"

\* C15 as stated: rerank_documents, advanced_search and build_context leave
\* the caller's list and every field of every document as they were: no
\* field is added or modified.
C15_Original ==
    [][Answered => (vector_results' = vector_results /\ heap' = heap)]_vars

\* C15: the three functions leave the caller's list as it was, remove no
\* document and no field, and change no field other than rerank_score;
\* rerank_score is written by rerank_documents only, on the documents it
\* was given, when the reranker was built and predict() returned scores
\* (on every such document, or on the ones before the score whose
\* conversion failed); build_context reads the documents advanced_search
\* returned as rerank_documents left them and writes to none.
C15_Amended ==
    [][Answered =>
          /\ vector_results' = vector_results
          /\ Len(heap') = Len(heap)
          /\ \A r \in 1..Len(heap) :
                /\ DOMAIN heap'[r] \in {DOMAIN heap[r],
                                        DOMAIN heap[r] \cup {"rerank_score"}}
                /\ \A k \in DOMAIN heap[r] \ {"rerank_score"} :
                      heap'[r][k] = heap[r][k]
                /\ heap'[r] # heap[r] =>
                      /\ use_reranker
                      /\ rr_reranker' # None
                      /\ rr_out'.predict = "scores"
                      /\ \E i \in 1..Len(rr_docs') :
                            /\ rr_docs'[i] = r
                            /\ rr_out'.fail_at = 0 \/ i < rr_out'.fail_at
                            /\ heap'[r].rerank_score =
                                   IF i <= Len(rr_out'.scores) THEN rr_out'.scores[i]
                                   ELSE 0
          /\ ctx_documents' = Deref(heap', result')]_vars

\* a request with reranking enabled was answered: both documents the caller
\* passed hold a rerank_score they did not hold before, and the context was
\* built from them
C15_Witness ==
    /\ pc = "responded"
    /\ use_reranker
    /\ Len(heap) = 2
    /\ rr_out.scores = <<1, 0 - 1>>
    /\ rr_out.fail_at = 0
    /\ heap[1].rerank_score = 1
    /\ heap[2].rerank_score = 0 - 1
    /\ Len(ctx_documents) = 2
    /\ ctx_documents[1] = heap[1]
    /\ context # <<>>

(***************************************************************************)
(* Properties of the sanitizer.                                            *)
(***************************************************************************)
Chars(s) == {s[i] : i \in 1..Len(s)}

\* three or more consecutive lines that are empty or hold only whitespace:
\* four newlines with nothing but whitespace from the first to the last
HasThreeBlankLines(s) ==
    \E i \in 1..Len(s), j \in 1..Len(s) :
        /\ i < j
        /\ \A k \in i..j : s[k] \in SpaceChars
        /\ Cardinality({k \in i..j : s[k] = "\n"}) >= 4

\* C9: clean_pdf_artifacts is idempotent: a second call, made on the output
\* of the first, returns its argument unchanged.
C9_Idempotent == san_calls = 2 => san_out = san_arg

\* a second call was made on a text the first call had changed
C9_Witness ==
    /\ san_calls = 2
    /\ san_arg # san_in
    /\ san_arg # <<>>
    /\ Contains(san_in, <<"a", " ", "@", " ", "a">>)

\* C10 (as claimed): the output holds no control character other than the
\* newline, no run of three or more blank lines (whitespace-only lines
\* counted as blank) and no run of two or more spaces.
C10_Original ==
    san_calls >= 1 =>
        /\ Chars(san_out) \cap (C0Controls \ {"\n"}) = {}
        /\ ~HasThreeBlankLines(san_out)
        /\ ~Contains(san_out, <<" ", " ">>)

\* C10 (amended): the output holds no C0 control character other than tab,
\* newline and carriage return, no run of three or more consecutive newline
\* characters and no run of two or more consecutive spaces.
C10_Amended ==
    san_calls >= 1 =>
        /\ Chars(san_out) \cap (C0Controls \ {"\t", "\n", "\r"}) = {}
        /\ ~Contains(san_out, <<"\n", "\n", "\n">>)
        /\ ~Contains(san_out, <<" ", " ">>)

\* a run of three newlines between two words was collapsed to two
C10_Witness ==
    /\ san_calls = 1
    /\ Contains(san_in, <<"a", "\n", "\n", "\n", "a">>)
    /\ Contains(san_out, <<"a", "\n", "\n", "a">>)

(***************************************************************************)
(* Properties of the context assembler.                                    *)
(***************************************************************************)
\* C1: the string build_context returns is at most max_chars characters
\* long, the separators between the entries and the truncation marker
\* counted.
C1_LengthWithinMaxChars == pc = "built" => Len(context) <= max_chars

\* the text of a document as the packing pass reads it
PackText(r) == Strip(Get(ctx_documents[r], "text", <<>>))

EndsWith(s, t) ==
    Len(s) >= Len(t) /\ SubSeq(s, Len(s) - Len(t) + 1, Len(s)) = t

\* the characters of the first n entries
RECURSIVE SumLen(_, _)
SumLen(parts, n) == IF n = 0 THEN 0 ELSE SumLen(parts, n - 1) + Len(parts[n])

\* the document the packing loop was left at
StopDoc == filtered_docs[pack_stop.at]

C14_NoRoomStops ==
    (pc = "built" /\ pack_stop.cause = "no_room") =>
        /\ total_chars + Len(PackText(StopDoc)) > max_chars
        /\ max_chars - total_chars <= 500
        /\ Len(context_parts) = Len(packed)
        /\ \A j \in 1..Len(packed) :
              /\ context_parts[j] = PackText(packed[j])
              /\ \E i \in 1..(pack_stop.at - 1) : filtered_docs[i] = packed[j]
        /\ total_chars = SumLen(context_parts, Len(context_parts))
        /\ context = Join(context_parts, <<"\n", "\n">>)

\* max_chars = 10 and a first document of 11 characters: the context is
\* empty although the document after it, 5 characters long, would fit
C14_Witness ==
    /\ pc = "built"
    /\ pack_stop = [at |-> 1, cause |-> "no_room"]
    /\ max_chars = 10
    /\ Len(PackText(filtered_docs[1])) = 11
    /\ Len(filtered_docs) = 2
    /\ Len(PackText(filtered_docs[2])) = 5
    /\ InSeq(".", PackText(filtered_docs[2]))
    /\ max_docs > 1
    /\ context = <<>>

\* the positions a list of positions holds
Positions(kept) == {kept[j] : j \in 1..Len(kept)}

\* a list of positions in input order, none twice
Ascending(kept) == \A j, k \in 1..Len(kept) : j < k => kept[j] < kept[k]

\* the document at position i matches a keyword of the query or the main header
MatchesQuery(i) ==
    LET lower_text == Lower(Get(ctx_documents[i], "text", <<>>))
        words == extract_keywords(query)
        header == MainHeader(ctx_documents)
    IN \/ \E k \in 1..Len(words) : Contains(lower_text, words[k])
       \/ header # <<>> /\ Contains(lower_text, Lower(header))

\* the rerank_score the filter reads: 0 when the document holds none
ScoreOf(i) ==
    IF "rerank_score" \in DOMAIN ctx_documents[i] THEN ctx_documents[i].rerank_score
    ELSE 0

\* the highest rerank_score of the documents, or 0 when none is above 0
MaxScore ==
    IF \E i \in 1..Len(ctx_documents) : ScoreOf(i) > 0
    THEN CHOOSE m \in {ScoreOf(i) : i \in 1..Len(ctx_documents)} :
            \A i \in 1..Len(ctx_documents) : ScoreOf(i) <= m
    ELSE 0

\* C17: the filter pass keeps the first document whatever its text and
\* score, and keeps a later document if and only if it matches a keyword of
\* the query or the main header and, when max_rerank > 0, its rerank_score
\* is at least 0.55 * max_rerank; the documents kept stay in input order.
C17_FilterPass ==
    (pc = "built" /\ ctx_documents # <<>>) =>
        /\ after_filter[1] = 1
        /\ Ascending(after_filter)
        /\ \A i \in 2..Len(ctx_documents) :
              i \in Positions(after_filter) <=>
                  /\ MatchesQuery(i)
                  /\ MaxScore > 0 => 100 * ScoreOf(i) >= 55 * MaxScore

\* the first document matches neither the query nor a header and is kept;
\* the second matches the query and is left out for its score, 1 against 2
C17_Witness ==
    /\ pc = "built"
    /\ Len(ctx_documents) = 2
    /\ query = <<"b", "b", "b", "b">>
    /\ ~MatchesQuery(1)
    /\ MatchesQuery(2)
    /\ ScoreOf(1) = 2
    /\ ScoreOf(2) = 1
    /\ after_filter = <<1>>

\* the document at position i equals one at a position of kept
EqualsKept(i, kept) ==
    \E j \in 1..Len(kept) : ctx_documents[kept[j]] = ctx_documents[i]

\* the number of different documents of the input
DistinctDocs == Cardinality({ctx_documents[i] : i \in 1..Len(ctx_documents)})

\* no position twice
NoRepeat(kept) == \A j, k \in 1..Len(kept) : j # k => kept[j] # kept[k]

\* C18 as stated: the list that enters the exact-text deduplication holds at
\* least min(min_docs, len(documents)) documents and no document twice.
C18_Original ==
    (pc = "built" /\ ctx_documents # <<>>) =>
        /\ Len(after_fallback) >= Min(min_docs, Len(ctx_documents))
        /\ NoRepeat(after_fallback)

\* C18: when fewer than min_docs documents survive the filter pass, the
\* documents that equal none kept so far are appended after the kept ones
\* in input order, whatever their match and score, until min_docs is
\* reached or the input is exhausted; a document equal to a kept one is
\* passed over.  The list that enters the exact-text deduplication holds no
\* position of the input twice and at least min(min_docs, number of
\* different documents) documents.
C18_Amended ==
    (pc = "built" /\ ctx_documents # <<>>) =>
        LET n == Len(after_filter)
            m == Len(after_safety)
            tail == SubSeq(after_safety, n + 1, m)
        IN /\ after_fallback = after_safety
           /\ NoRepeat(after_safety)
           /\ m >= Min(min_docs, DistinctDocs)
           /\ IF n >= min_docs THEN after_safety = after_filter
              ELSE /\ SubSeq(after_safety, 1, n) = after_filter
                   /\ Ascending(tail)
                   /\ m <= min_docs
                   /\ \A j \in (n + 1)..m :
                         ~EqualsKept(after_safety[j], SubSeq(after_safety, 1, j - 1))
                   /\ \A i \in 1..Len(ctx_documents) :
                         i \notin Positions(after_safety) =>
                             \/ EqualsKept(i, after_safety)
                             \/ m = min_docs /\ i > after_safety[m]

\* the filter pass kept one of two different documents and min_docs = 2: the
\* second, whose score is below the threshold, was appended
C18_Witness ==
    /\ pc = "built"
    /\ min_docs = 2
    /\ Len(ctx_documents) = 2
    /\ MatchesQuery(2)
    /\ ScoreOf(2) = 1
    /\ MaxScore = 2
    /\ after_filter = <<1>>
    /\ after_safety = <<1, 2>>

\* C23: for a document list that is not empty the filter pass keeps at least
\* one document, the first, so the list is not empty when the total
\* fallback is reached and the fallback leaves it as it is.
C23_FallbackNeverTaken ==
    (pc = "built" /\ ctx_documents # <<>>) =>
        /\ after_filter # <<>>
        /\ after_filter[1] = 1
        /\ after_safety # <<>>
        /\ after_fallback = after_safety

\* the query has a keyword, the first document holds no keyword and gives no
\* main header, min_docs = 0, and the first document alone was kept
C23_Witness ==
    /\ pc = "built"
    /\ Len(ctx_documents) = 2
    /\ extract_keywords(query) # <<>>
    /\ MainHeader(ctx_documents) = <<>>
    /\ ~MatchesQuery(1)
    /\ min_docs = 0
    /\ after_filter = <<1>>
    /\ after_fallback = <<1>>

\* the place of position r in a list of positions, 0 when it is not there
PlaceIn(kept, r) ==
    IF r \in Positions(kept) THEN CHOOSE j \in 1..Len(kept) : kept[j] = r ELSE 0

Cleaned == clean_pdf_artifacts(raw_text)

\* the sentences of the non-blank lines of a text that are at least min_len
\* characters long, in source order, each as the chunker writes it: a heading
\* as it stands, a sentence behind the heading of its section
RECURSIVE SourceItems(_, _, _, _, _)
SourceItems(lines, i, header, min_len, found) ==
    IF i > Len(lines) THEN found
    ELSE LET line == Strip(lines[i])
             heading == is_heading(line)
             raw == IF heading THEN <<line>> ELSE sent_tokenize(line, punkt_ok)
             sents == SelectSeq([j \in 1..Len(raw) |-> Strip(raw[j])],
                                LAMBDA s : Len(s) >= min_len)
             head == IF heading THEN line ELSE header
         IN IF line = <<>> THEN SourceItems(lines, i + 1, header, min_len, found)
            ELSE SourceItems(lines, i + 1, head, min_len,
                             found \o [j \in 1..Len(sents) |->
                                          WithContext(sents[j], heading, head)])

\* the items of the closed chunks that are not overlap seeds, in order
RECURSIVE CoreItems(_)
CoreItems(i) ==
    IF i > Len(closes) THEN <<>>
    ELSE Strings(SelectSeq(closes[i].items, LAMBDA it : ~it.seed)) \o CoreItems(i + 1)

\* every chunk is its items joined by spaces (behind its heading when the
\* join does not hold it), and an overlap seed stands first in its chunk and
\* is the tail of the chunk before
ChunksAreItems ==
    /\ Len(chunks) = Len(closes)
    /\ \A i \in 1..Len(closes) :
          LET items == closes[i].items
              joined == Join(Strings(items), <<" ">>)
          IN /\ chunks[i] \in {joined, closes[i].header \o <<"\n">> \o joined}
             /\ \A j \in 1..Len(items) :
                   items[j].seed =>
                       /\ j = 1
                       /\ i > 1
                       /\ overlap > 0
                       /\ items[j].s = Suffix(chunks[i - 1], overlap)

\* the chunks hold the sentences of at least min_len characters, once each
\* and in source order; a text the loop closed no chunk of is returned whole
Complete(min_len) ==
    IF Cleaned = <<>> THEN chunks = <<>>
    ELSE IF closes = <<>>
    THEN /\ chunks = <<Cleaned>>
         /\ Len(Cleaned) > chunk_size =>
                SourceItems(SplitLines(Cleaned), 1, <<>>, min_len, <<>>) = <<>>
    ELSE /\ ChunksAreItems
         /\ CoreItems(1) = SourceItems(SplitLines(Cleaned), 1, <<>>, min_len, <<>>)

\* C2: every chunk returned is at most chunk_size characters long, except a
\* chunk that holds a sentence or line that alone (with the heading written
\* before it) is longer than chunk_size.
C2_ChunkSizeBound ==
    pc = "chunked" =>
        \A i \in 1..Len(chunks) :
            \/ Len(chunks[i]) <= chunk_size
            \/ /\ i <= Len(closes)
               /\ \E j \in 1..Len(closes[i].items) :
                     /\ ~closes[i].items[j].seed
                     /\ Len(closes[i].items[j].s) > chunk_size

\* C3 as stated: every non-blank line of the sanitized text is in the chunks:
\* the chunks without their overlap seeds hold every sentence of every
\* non-blank line, once each and in source order.
C3_Original == pc = "chunked" => Complete(1)

\* C3: the chunks without their overlap seeds hold every sentence of at
\* least 3 characters of every non-blank line of the sanitized text (a
\* heading line being one sentence), once each and in source order, each
\* behind the heading of its section; shorter sentences and lines are left
\* out, and an overlap seed, the tail of the chunk before, is the only
\* content that is repeated.
C3_Amended == pc = "chunked" => Complete(3)

\* a call that left a line out, closed a chunk on a heading and another on its
\* size, and seeded a chunk with the tail of the chunk before
C3_Witness ==
    /\ pc = "chunked"
    /\ SourceItems(SplitLines(Cleaned), 1, <<>>, 1, <<>>)
         # SourceItems(SplitLines(Cleaned), 1, <<>>, 3, <<>>)
    /\ \E i \in 1..Len(closes) : closes[i].cause = "heading"
    /\ \E i \in 1..Len(closes) : closes[i].cause = "size"
    /\ \E i \in 1..Len(closes) : closes[i].items[1].seed

\* the sanitized text is one line that holds no sentence break
SingleSentenceLine ==
    /\ Cleaned # <<>>
    /\ ~InSeq("\n", Cleaned)
    /\ \A i \in 1..(Len(Cleaned) - 1) :
          ~(Cleaned[i] \in SentenceEnd /\ Cleaned[i + 1] \in SpaceChars)

\* C16: a text whose sanitized form is a single line longer than chunk_size
\* without a sentence break comes back as exactly one chunk, the whole
\* sanitized line.
C16_OversizedLineWhole ==
    (pc = "chunked" /\ SingleSentenceLine /\ Len(Cleaned) > chunk_size) =>
        chunks = <<Cleaned>>

\* a line of 20 characters behind a blank line, chunk_size = 8, overlap = 4:
\* the loop closed one chunk, at the end, and it is the line
C16_Witness ==
    /\ pc = "chunked"
    /\ SingleSentenceLine
    /\ raw_text # Cleaned
    /\ Len(Cleaned) = 20
    /\ chunk_size = 8
    /\ overlap = 4
    /\ Len(closes) = 1
    /\ closes[1].cause = "end"
    /\ chunks = <<Cleaned>>

\* string s begins with string t
StartsWith(s, t) == Len(t) <= Len(s) /\ SubSeq(s, 1, Len(t)) = t

\* an overlap seed is the first item of a chunk that follows a close by the
\* size test at a line that is no heading, with overlap > 0
SeedsOnlyAfterSizeClose ==
    \A i \in 1..Len(closes) : \A j \in 1..Len(closes[i].items) :
        closes[i].items[j].seed =>
            /\ j = 1
            /\ i > 1
            /\ closes[i - 1].cause = "size"
            /\ ~is_heading(closes[i - 1].by)
            /\ overlap > 0
            /\ closes[i].items[j].s = Suffix(chunks[i - 1], overlap)

\* C20 as stated: the chunk after a chunk closed by a heading line starts
\* with no overlap seed and begins with the text of that heading line; a
\* seed is taken only at a close by the size test at a line that is no
\* heading, with overlap > 0.
C20_Original ==
    pc = "chunked" =>
        /\ SeedsOnlyAfterSizeClose
        /\ \A i \in 1..(Len(closes) - 1) : closes[i].cause = "heading" =>
              /\ ~closes[i + 1].items[1].seed
              /\ StartsWith(chunks[i + 1], closes[i].by)

\* C20: the chunk after a chunk closed by a heading line starts with no
\* overlap seed and begins with the text of the heading in force when it
\* is closed itself: the heading line that closed the chunk before it, or a
\* heading line that followed that one before any sentence was added.  A
\* seed is taken only at a close by the size test at a line that is no
\* heading, with overlap > 0.
C20_Amended ==
    pc = "chunked" =>
        /\ SeedsOnlyAfterSizeClose
        /\ \A i \in 1..(Len(closes) - 1) : closes[i].cause = "heading" =>
              /\ ~closes[i + 1].items[1].seed
              /\ is_heading(closes[i].by)
              /\ closes[i + 1].header # <<>>
              /\ StartsWith(chunks[i + 1], closes[i + 1].header)
              /\ closes[i + 1].header # closes[i].by =>
                    /\ Len(closes[i].by) < MinSentenceLen
                    /\ closes[i + 1].items[1].s = closes[i + 1].header

\* with overlap > 0, a chunk was closed by a heading line and the chunk after
\* it, which begins with that heading, was closed by the size test, so that
\* the chunk after that one starts with a seed
C20_Witness ==
    /\ pc = "chunked"
    /\ overlap > 0
    /\ Len(closes) >= 3
    /\ closes[1].cause = "heading"
    /\ ~closes[2].items[1].seed
    /\ StartsWith(chunks[2], closes[1].by)
    /\ closes[2].cause = "size"
    /\ closes[3].items[1].seed

\* the length of an accumulator: the length of each item and one separator
\* for each item
ItemsLen(items, n) ==
    IF n = 0 THEN 0 ELSE SumLen(Strings(items), n) + n

\* the sentence whose arrival closed chunk i by the size test: the first item
\* of the chunk after it that is no overlap seed
NextSentence(i) ==
    LET items == closes[i + 1].items
    IN IF items[1].seed THEN items[2].s ELSE items[1].s

\* C21: the tracked length of a chunk that is closed is the length of its
\* accumulator (each item's length and one separator for each item), and a
\* chunk is closed by the size test only when its accumulator with the next
\* prefixed sentence appended would be longer than chunk_size.
C21_TrackedIsAccumulator ==
    pc = "chunked" =>
        \A i \in 1..Len(closes) :
            /\ closes[i].tracked = ItemsLen(closes[i].items, Len(closes[i].items))
            /\ closes[i].cause = "size" =>
                  ItemsLen(closes[i].items, Len(closes[i].items))
                      + Len(NextSentence(i)) + 1 > chunk_size

\* C25: a chunk that is closed while last_header is set holds last_header
\* in its joined accumulator, so the heading is never written on a line of
\* its own before the chunk; the chunk carries the heading as the heading
\* item or as the "{last_header}: " prefix of each of its sentences.
C25_HeaderNeverPrepended ==
    pc = "chunked" =>
        \A i \in 1..Len(closes) :
            /\ ~closes[i].prepended
            /\ chunks[i] = Join(Strings(closes[i].items), <<" ">>)
            /\ closes[i].header # <<>> =>
                  /\ Contains(chunks[i], closes[i].header)
                  /\ \A j \in 1..Len(closes[i].items) :
                        \/ closes[i].items[j].seed
                        \/ closes[i].items[j].s = closes[i].header
                        \/ StartsWith(closes[i].items[j].s,
                                      closes[i].header \o <<":", " ">>)

\* under a heading, a chunk that is the heading item alone was closed, and a
\* later chunk of the section starts with an overlap seed and holds the
\* heading only as the prefix of its sentence
C25_Witness ==
    /\ pc = "chunked"
    /\ \E i \in 1..Len(closes) :
          /\ closes[i].header # <<>>
          /\ Strings(closes[i].items) = <<closes[i].header>>
    /\ \E i \in 1..Len(closes) :
          /\ closes[i].header # <<>>
          /\ closes[i].items[1].seed
          /\ Len(closes[i].items) = 2
          /\ closes[i].items[2].s # closes[i].header
          /\ ~closes[i].prepended


(***************************************************************************)
(* Properties of the /ask endpoint.                                        *)
(***************************************************************************)
\* the events so far: the tokens yielded, in order, then at most one event
\* error, then at most one event done, which is there exactly when the
\* generator has yielded it
StreamShape ==
    LET n == Len(events)
        k == Len(yielded)
    IN /\ k <= n
       /\ \A i \in 1..k : events[i] = TokenEvent(yielded[i])
       /\ \A i \in (k + 1)..n : events[i].type \in {"error", "done"}
       /\ \A i \in 1..n : events[i].type = "done" => i = n
       /\ \A i \in 1..n : events[i].type = "error" =>
             \/ i = n /\ ask_at = "failed"
             \/ i = n - 1 /\ events[n].type = "done"
       /\ ask_at \in {"done", "closed"} <=> (n > 0 /\ events[n].type = "done")

\* C22: every response stream of /ask comes to its end; the events emitted
\* are the tokens the generator yielded, in order, then at most one event
\* error, then exactly one event done, and nothing after it.
C22_StreamEndsWithDone ==
    /\ [](pc = "ask" => StreamShape)
    /\ [][(ask_at \in {"done", "closed"}) => (events' = events)]_vars
    /\ <>(ask_at = "closed")

\* a text of the llama stream was skipped, a token was sent, the stream
\* raised, and the response ended with the events error and done
C22_Witness ==
    /\ pc = "ask"
    /\ ask_at = "closed"
    /\ next_raw = 3
    /\ Len(raw_tokens) = 3
    /\ Len(yielded) = 1
    /\ Len(events) = 3
    /\ events[1].type = "token"
    /\ events[2] = ErrorEvent("Exception")
    /\ events[3] = DoneEvent

====
